---- MODULE Spec2Model ----
(***************************************************************************)
(* Model of the audio-text-time synchronisation code of video_assembler:   *)
(*   - SubtitleService._step2_force_alignment and _step4_align_timestamps  *)
(*     (src/services/subtitle_service.py),                                 *)
(*   - find_audio_offset and the duration allocation of run()              *)
(*     (src/engines/ffmpeg_engine.py).                                     *)
(*                                                                         *)
(* Text is a sequence of one-character tokens.  Times are exact rationals  *)
(* kept as integers: one unit is 0.5 s / (HalfSecTicks * TimeScale), so    *)
(* that the division of a replace run's interval by its number of script   *)
(* characters is exact.  Floating-point rounding of Python's float is not  *)
(* modelled for times.                                                     *)
(***************************************************************************)
EXTENDS Integers, Sequences, FiniteSets, TLC

\* ------------------------------------------------------------------ bounds
MaxWords == 2
MaxWordLen == 2
MaxScriptLen == 3
MaxTick == 2
HalfSecTicks == 2
MaxSubWords == 1
MaxSubTick == 1
MaxLines == 2
MaxLineLen == 2
MaxMainLen == 4
MaxSegLen == 2
MaxAmp == 2
MaxHint == 7
MaxPairs == 3
MaxMainGrid == 5
MaxSegGrid == 2
MaxJobs == 2
MaxPathLen == 4
MaxFolderStems == 3
MaxLongLen == 22
MaxTimelineLen == 2

Letters == {"a", "b"}
JobIds == {"1a2b3c4d", "5e6f7a8b"}
CallbackUrls == {"https://hook.make.com/x", "https://hook.make.com/y"}
NL == "\n"
CR == "\r"
Comma == ","

\* ----------------------------------------------------------------- helpers
Max(S) == CHOOSE x \in S : \A y \in S : y <= x
Min(S) == CHOOSE x \in S : \A y \in S : x <= y

SeqsUpTo(S, n) == UNION {[1..k -> S] : k \in 0..n}

RECURSIVE Lcm1To(_)
Lcm1To(n) ==
    IF n <= 1 THEN 1
    ELSE LET l == Lcm1To(n - 1)
         IN  CHOOSE m \in l..(l * n) :
                 /\ m % l = 0 /\ m % n = 0
                 /\ \A q \in l..(l * n) : (q % l = 0 /\ q % n = 0) => m <= q

\* integer units per tick: every division duration / num_script_chars is exact
TimeScale == Lcm1To(MaxScriptLen)

\* 0.5 (seconds) in units
HalfSecond == HalfSecTicks * TimeScale

\* s.replace(c, "") for every character c of the set drop
Without(s, drop) == SelectSeq(s, LAMBDA c : c \notin drop)

RECURSIVE Concat(_)
Concat(ss) == IF ss = <<>> THEN <<>> ELSE Head(ss) \o Concat(Tail(ss))

VARIABLES
    pc,                 \* position in SubtitleService.generate / run
    whisper_timestamps, \* step 1 result: list of {word, start, end}
    full_script,        \* the script handed to step 2
    opcodes,            \* matcher.get_opcodes()
    op_i,               \* index of the next opcode (1-based)
    aligned_results,    \* step 2: list of {char, start, end}
    current_time,       \* step 2: current_time
    subtitle_lines,     \* step 4 input
    aligned_chars,      \* step 4 input (step 2's result)
    final_subtitles,    \* step 4: cues appended so far
    char_idx,           \* step 4: cursor into aligned_chars (0-based)
    matched_count,
    fallback_count,
    total_script_chars,
    current_time4,      \* step 4: current_time
    line_i,             \* step 4: index of the line being processed (1-based)
    ch_i,               \* step 4: index of the next character of the line
    start_time,         \* step 4: <<>> is None, <<t>> is t
    end_time,
    main_audio,         \* find_audio_offset: reference samples (units of 1/32768)
    segment_audio,      \* find_audio_offset: clip samples
    sr,                 \* find_audio_offset: sample rate
    start_hint,         \* find_audio_offset: hint in seconds
    peak_idx,           \* find_audio_offset: index returned (offset = peak_idx / sr)
    main_samples,       \* run: len(main_audio)
    seg_samples,        \* run: len(seg_audio) of every pair, in pair order
    current_hint,       \* run: current_hint, in samples (seconds * 8000)
    start_times,        \* run: start_times of the pairs detected so far, in samples
    alloc_i,            \* run: index i of the allocation loop (1-based)
    duration_frames,    \* run: duration_frames of every allocated segment
    exact_durations,    \* run: exact_durations, in units of 1 / (FPS * SR) s
    target_durations,   \* create_segment_videos: target_duration of every worker
                        \* that has run, same units; <<>> before it has
    pairs,              \* create_segment_videos: seq of every pair, in list order
    worker_pc,          \* position of every process_single_segment call
    print_lock,         \* 0 when free, else the index of the holding worker
    completed_count,    \* create_segment_videos: completed_count
    loaded_count,       \* per worker: the value read by completed_count += 1
    written,            \* output files written: [file, by] for worker by
    returned,           \* per worker: <<>> or <<idx, output_segment>>
    segments,           \* create_segment_videos: segments
    progress_log,       \* seq of the progress lines printed, in order
    skip_subtitle,      \* VideoProcessor.process: argument skip_subtitle
    debug,              \* VideoProcessor.process: argument debug
    script_exists,      \* full_script.txt exists in the folder
    avatar_exists,      \* the avatar video exists in the folder
    srt_existed,        \* full_subtitle.srt existed when process was called
    srt_writes,         \* number of times full_subtitle.srt was written
    proc_log,           \* the service calls made by process, in order
    jobs,               \* routes.jobs: job id -> entry (status "absent": no key)
    tasks,              \* the background tasks added, in order of submission
    running,            \* the task that holds the event loop, 0 for none
    webhooks,           \* the webhook posts attempted, in order
    folder,             \* find_matching_pairs: the files of the folder, as
                        \* [stem, suffix] with stem a sequence of characters
    os_name,            \* escape_ffmpeg_filter_path: get_platform()
    path,               \* the characters of str(path), of path.as_posix()
                        \* off Windows
    escaped             \* the string returned

subVars == <<whisper_timestamps, full_script, opcodes, op_i, aligned_results,
             current_time>>
mapVars == <<subtitle_lines, aligned_chars, final_subtitles, char_idx,
             matched_count, fallback_count, total_script_chars, current_time4,
             line_i, ch_i, start_time, end_time>>
offVars == <<main_audio, segment_audio, sr, start_hint, peak_idx>>
runVars == <<main_samples, seg_samples, current_hint, start_times, alloc_i,
             duration_frames, exact_durations, target_durations>>
poolVars == <<pairs, worker_pc, print_lock, completed_count, loaded_count,
              written, returned, segments, progress_log>>
procVars == <<skip_subtitle, debug, script_exists, avatar_exists, srt_existed,
              srt_writes, proc_log>>
jobVars == <<jobs, tasks, running, webhooks>>
escVars == <<os_name, path, escaped>>
vars == <<pc, subVars, mapVars, offVars, runVars, poolVars, procVars, jobVars, folder, escVars>>

\* ------------------------------------------------- step 2: force alignment
\* mutant: the end of a character is taken from the word's start
RECURSIVE WhisperCharsStartOnly(_)
WhisperCharsStartOnly(ws) ==
    IF ws = <<>> THEN <<>>
    ELSE LET w == Head(ws)
         IN  [k \in 1..Len(w.word) |->
                 [char |-> w.word[k], start |-> w.start, end |-> w.start]]
             \o WhisperCharsStartOnly(Tail(ws))

\* whisper_chars: every character of a word inherits the word's start/end
RECURSIVE WhisperChars(_)
WhisperChars(ws) ==
    IF ws = <<>> THEN <<>>
    ELSE LET w == Head(ws)
         IN  [k \in 1..Len(w.word) |->
                 [char |-> w.word[k], start |-> w.start, end |-> w.end]]
             \o WhisperChars(Tail(ws))

CharsOf(cs) == [k \in 1..Len(cs) |-> cs[k].char]

\* script_chars = list(full_script.replace("\n", ""))
ScriptChars(script) == Without(script, {NL})

\* length of the common run of a[i..ahi) and b[j..bhi) (0-based, half-open)
RECURSIVE MatchLen(_, _, _, _, _, _)
MatchLen(a, b, i, j, ahi, bhi) ==
    IF i < ahi /\ j < bhi /\ a[i + 1] = b[j + 1]
    THEN 1 + MatchLen(a, b, i + 1, j + 1, ahi, bhi)
    ELSE 0

\* SequenceMatcher.find_longest_match without junk: the longest block, the
\* one starting earliest in a, and of those the one starting earliest in b
FindLongestMatch(a, b, alo, ahi, blo, bhi) ==
    LET starts == (alo..(ahi - 1)) \X (blo..(bhi - 1))
        size(p) == MatchLen(a, b, p[1], p[2], ahi, bhi)
        bestsize == IF starts = {} THEN 0 ELSE Max({size(p) : p \in starts})
    IN  IF bestsize = 0 THEN <<alo, blo, 0>>
        ELSE LET besti == Min({p[1] : p \in {q \in starts : size(q) = bestsize}})
                 bestj == Min({p[2] : p \in {q \in starts :
                                    q[1] = besti /\ size(q) = bestsize}})
             IN  <<besti, bestj, bestsize>>

\* SequenceMatcher.get_matching_blocks: recursion to the left and right of
\* the longest match, blocks in increasing order (without the sentinel)
RECURSIVE MatchingBlocks(_, _, _, _, _, _)
MatchingBlocks(a, b, alo, ahi, blo, bhi) ==
    LET x == FindLongestMatch(a, b, alo, ahi, blo, bhi)
        i == x[1]
        j == x[2]
        k == x[3]
    IN  IF k = 0 THEN <<>>
        ELSE (IF alo < i /\ blo < j
              THEN MatchingBlocks(a, b, alo, i, blo, j) ELSE <<>>)
             \o <<x>> \o
             (IF i + k < ahi /\ j + k < bhi
              THEN MatchingBlocks(a, b, i + k, ahi, j + k, bhi) ELSE <<>>)

\* SequenceMatcher.get_opcodes over the blocks followed by the sentinel
RECURSIVE OpcodesFrom(_, _, _)
OpcodesFrom(blocks, i, j) ==
    IF blocks = <<>> THEN <<>>
    ELSE LET ai == Head(blocks)[1]
             bj == Head(blocks)[2]
             size == Head(blocks)[3]
             tag == IF i < ai /\ j < bj THEN "replace"
                    ELSE IF i < ai THEN "delete"
                    ELSE IF j < bj THEN "insert"
                    ELSE ""
             gap == IF tag = "" THEN <<>>
                    ELSE <<[tag |-> tag, i1 |-> i, i2 |-> ai, j1 |-> j, j2 |-> bj]>>
             eq == IF size = 0 THEN <<>>
                   ELSE <<[tag |-> "equal", i1 |-> ai, i2 |-> ai + size,
                           j1 |-> bj, j2 |-> bj + size]>>
         IN  gap \o eq \o OpcodesFrom(Tail(blocks), ai + size, bj + size)

\* difflib.SequenceMatcher(None, a, b, autojunk=False).get_opcodes()
GetOpcodes(a, b) ==
    OpcodesFrom(MatchingBlocks(a, b, 0, Len(a), 0, Len(b))
                    \o <<(<<Len(a), Len(b), 0>>)>>, 0, 0)

whisper_chars == WhisperChars(whisper_timestamps)
script_str == ScriptChars(full_script)
whisper_str == CharsOf(whisper_chars)

\* mutant: start and end of the transcribed character are exchanged
EqualEntriesSwapped(op) ==
    [k \in 1..(op.j2 - op.j1) |->
        [char |-> script_str[op.j1 + k],
         start |-> whisper_chars[op.i1 + k].end,
         end |-> whisper_chars[op.i1 + k].start]]

\* the entries an equal run appends
EqualEntries(op) ==
    [k \in 1..(op.j2 - op.j1) |->
        [char |-> script_str[op.j1 + k],
         start |-> whisper_chars[op.i1 + k].start,
         end |-> whisper_chars[op.i1 + k].end]]

\* start_t and end_t of a replace run
ReplaceStart(op) ==
    IF op.i2 > op.i1 THEN whisper_chars[op.i1 + 1].start ELSE current_time
ReplaceEnd(op) ==
    IF op.i2 > op.i1 THEN whisper_chars[op.i2].end ELSE current_time

\* mutant: every character of a replace run gets the whole interval
ReplaceEntriesWhole(op) ==
    [k \in 1..(op.j2 - op.j1) |->
        [char |-> script_str[op.j1 + k],
         start |-> ReplaceStart(op), end |-> ReplaceEnd(op)]]

\* the entries a replace run appends: the interval is divided evenly
ReplaceEntries(op) ==
    LET start_t == ReplaceStart(op)
        duration == ReplaceEnd(op) - start_t
        num_script_chars == op.j2 - op.j1
    IN  [k \in 1..num_script_chars |->
            [char |-> script_str[op.j1 + k],
             start |-> start_t + ((k - 1) * duration) \div num_script_chars,
             end |-> start_t + (k * duration) \div num_script_chars]]

\* mutant: the characters of an insert run are dropped
InsertEntriesDropped(op) == <<>>

\* the entries an insert run appends: zero width at current_time
InsertEntries(op) ==
    [k \in 1..(op.j2 - op.j1) |->
        [char |-> script_str[op.j1 + k],
         start |-> current_time, end |-> current_time]]

\* entry into _step2_force_alignment up to the loop over the opcodes
Step2Begin ==
    /\ pc = "step2"
    /\ opcodes' = GetOpcodes(whisper_str, script_str)
    /\ op_i' = 1
    /\ aligned_results' = <<>>
    /\ current_time' = IF whisper_chars # <<>> THEN whisper_chars[1].start ELSE 0
    /\ pc' = "s2_loop"
    /\ UNCHANGED <<escVars, folder, jobVars, procVars, poolVars, whisper_timestamps, full_script, mapVars, offVars, runVars>>

AtOp(tag) == pc = "s2_loop" /\ op_i <= Len(opcodes) /\ opcodes[op_i].tag = tag

\* mutant: an equal run leaves current_time where it was
AlignEqualKeepsCursor ==
    /\ AtOp("equal")
    /\ aligned_results' = aligned_results \o EqualEntries(opcodes[op_i])
    /\ op_i' = op_i + 1
    /\ UNCHANGED <<escVars, folder, jobVars, procVars, poolVars, pc, whisper_timestamps, full_script, opcodes, current_time,
                   mapVars, offVars, runVars>>

AlignEqual ==
    /\ AtOp("equal")
    /\ LET op == opcodes[op_i]
       IN  /\ aligned_results' = aligned_results \o EqualEntries(op)
           /\ current_time' = IF op.j2 > op.j1 THEN whisper_chars[op.i1 + (op.j2 - op.j1)].end
                              ELSE current_time
    /\ op_i' = op_i + 1
    /\ UNCHANGED <<escVars, folder, jobVars, procVars, poolVars, pc, whisper_timestamps, full_script, opcodes, mapVars, offVars,
                   runVars>>

AlignReplace ==
    /\ AtOp("replace")
    /\ LET op == opcodes[op_i]
       IN  /\ aligned_results' = aligned_results \o ReplaceEntries(op)
           /\ current_time' = ReplaceEnd(op)
    /\ op_i' = op_i + 1
    /\ UNCHANGED <<escVars, folder, jobVars, procVars, poolVars, pc, whisper_timestamps, full_script, opcodes, mapVars, offVars,
                   runVars>>

AlignDelete ==
    /\ AtOp("delete")
    /\ LET op == opcodes[op_i]
       IN  current_time' = IF op.i2 > op.i1 THEN whisper_chars[op.i2].end
                           ELSE current_time
    /\ op_i' = op_i + 1
    /\ UNCHANGED <<escVars, folder, jobVars, procVars, poolVars, pc, whisper_timestamps, full_script, opcodes, aligned_results,
                   mapVars, offVars, runVars>>

AlignInsert ==
    /\ AtOp("insert")
    /\ aligned_results' = aligned_results \o InsertEntries(opcodes[op_i])
    /\ op_i' = op_i + 1
    /\ UNCHANGED <<escVars, folder, jobVars, procVars, poolVars, pc, whisper_timestamps, full_script, opcodes, current_time,
                   mapVars, offVars, runVars>>

\* return aligned_results: the other locals of the call go out of scope
Step2Return ==
    /\ pc = "s2_loop"
    /\ op_i > Len(opcodes)
    /\ pc' = "step3"
    /\ whisper_timestamps' = <<>>
    /\ full_script' = <<>>
    /\ opcodes' = <<>>
    /\ op_i' = 1
    /\ current_time' = 0
    /\ UNCHANGED <<escVars, folder, jobVars, procVars, poolVars, aligned_results, mapVars, offVars, runVars>>

NextAlign ==
    \/ Step2Begin
    \/ AlignEqual
    \/ AlignReplace
    \/ AlignDelete
    \/ AlignInsert
    \/ Step2Return

\* --------------------------------------------- step 4: timestamp alignment
\* skip_chars of _step4_align_timestamps; the full-width marks are written
\* by their code points
skip_chars ==
    {" ", "U+FF0C", "U+3002", "U+3001", "U+FF01", "U+FF1F", "U+FF1A", "U+FF1B",
     "U+300C", "U+300D", "U+300E", "U+300F", "U+FF08", "U+FF09",
     ",", ".", "!", "?", ":", ";"}

search_window == 100

None == <<>>

\* line.replace("\n", "").replace("\r", "")
LineClean(line) == Without(line, {NL, CR})

RECURSIVE SumLen(_)
SumLen(lines) ==
    IF lines = <<>> THEN 0
    ELSE Len(LineClean(Head(lines))) + SumLen(Tail(lines))

total_chars == Len(aligned_chars)

\* the offsets k of the search loop at which the timeline character is
\* not skipped and equals char
MatchOffsets(char) ==
    {k \in 0..(Min({search_window, total_chars - char_idx}) - 1) :
        /\ aligned_chars[char_idx + k + 1].char \notin skip_chars
        /\ aligned_chars[char_idx + k + 1].char = char}

\* the call of _step4_align_timestamps, up to the loop over the lines
Step4Begin(lines) ==
    /\ pc = "step3"
    /\ subtitle_lines' = lines
    /\ aligned_chars' = aligned_results
    /\ final_subtitles' = <<>>
    /\ char_idx' = 0
    /\ matched_count' = 0
    /\ fallback_count' = 0
    /\ total_script_chars' = SumLen(lines)
    /\ current_time4' = IF aligned_results # <<>> THEN aligned_results[1].start ELSE 0
    /\ line_i' = 1
    /\ ch_i' = 1
    /\ start_time' = None
    /\ end_time' = None
    /\ pc' = "s4_line"
    /\ UNCHANGED <<escVars, folder, jobVars, procVars, poolVars, subVars, offVars, runVars>>

AtLine == pc = "s4_line" /\ line_i <= Len(subtitle_lines)
line_clean == LineClean(subtitle_lines[line_i])

\* mutant: an empty line is not skipped and gets a cue at current_time
MapEmptyLineAppends ==
    /\ AtLine
    /\ line_clean = <<>>
    /\ final_subtitles' = Append(final_subtitles,
            [start |-> current_time4, end |-> current_time4 + HalfSecond,
             text |-> subtitle_lines[line_i]])
    /\ line_i' = line_i + 1
    /\ UNCHANGED <<escVars, folder, jobVars, procVars, poolVars, pc, subVars, offVars, runVars, subtitle_lines, aligned_chars,
                   char_idx, matched_count, fallback_count, total_script_chars,
                   current_time4, ch_i, start_time, end_time>>

\* if not line_clean: continue
MapEmptyLine ==
    /\ AtLine
    /\ line_clean = <<>>
    /\ line_i' = line_i + 1
    /\ UNCHANGED <<escVars, folder, jobVars, procVars, poolVars, pc, subVars, offVars, runVars, subtitle_lines, aligned_chars, final_subtitles,
                   char_idx, matched_count, fallback_count, total_script_chars,
                   current_time4, ch_i, start_time, end_time>>

\* start_time = None; end_time = None; enter the loop over the characters
MapStartLine ==
    /\ AtLine
    /\ line_clean # <<>>
    /\ start_time' = None
    /\ end_time' = None
    /\ ch_i' = 1
    /\ pc' = "s4_char"
    /\ UNCHANGED <<escVars, folder, jobVars, procVars, poolVars, subVars, offVars, runVars, subtitle_lines, aligned_chars, final_subtitles,
                   char_idx, matched_count, fallback_count, total_script_chars,
                   current_time4, line_i>>

AtChar == pc = "s4_char" /\ ch_i <= Len(line_clean)
char == line_clean[ch_i]

\* mutant: a punctuation character of the line consumes the entry at the cursor
MapSkipCharConsumes ==
    /\ AtChar
    /\ char \in skip_chars
    /\ ch_i' = ch_i + 1
    /\ char_idx' = IF char_idx < total_chars THEN char_idx + 1 ELSE char_idx
    /\ UNCHANGED <<escVars, folder, jobVars, procVars, poolVars, pc, subVars, offVars, runVars, subtitle_lines, aligned_chars, final_subtitles,
                   matched_count, fallback_count, total_script_chars,
                   current_time4, line_i, start_time, end_time>>

\* if char in skip_chars: continue
MapSkipChar ==
    /\ AtChar
    /\ char \in skip_chars
    /\ ch_i' = ch_i + 1
    /\ UNCHANGED <<escVars, folder, jobVars, procVars, poolVars, pc, subVars, offVars, runVars, subtitle_lines, aligned_chars, final_subtitles,
                   char_idx, matched_count, fallback_count, total_script_chars,
                   current_time4, line_i, start_time, end_time>>

\* mutant: every match sets the line's start_time again
MapMatchRestartsLine ==
    /\ AtChar
    /\ char \notin skip_chars
    /\ MatchOffsets(char) # {}
    /\ LET found_idx == char_idx + Min(MatchOffsets(char))
           item == aligned_chars[found_idx + 1]
       IN  /\ start_time' = <<item.start>>
           /\ end_time' = <<item.end>>
           /\ current_time4' = item.end
           /\ char_idx' = found_idx + 1
    /\ matched_count' = matched_count + 1
    /\ ch_i' = ch_i + 1
    /\ UNCHANGED <<escVars, folder, jobVars, procVars, poolVars, pc, subVars, offVars, runVars, subtitle_lines, aligned_chars, final_subtitles,
                   fallback_count, total_script_chars, line_i>>

\* the search finds char at found_idx
MapMatch ==
    /\ AtChar
    /\ char \notin skip_chars
    /\ MatchOffsets(char) # {}
    /\ LET found_idx == char_idx + Min(MatchOffsets(char))
           item == aligned_chars[found_idx + 1]
       IN  /\ start_time' = IF start_time = None THEN <<item.start>> ELSE start_time
           /\ end_time' = <<item.end>>
           /\ current_time4' = item.end
           /\ char_idx' = found_idx + 1
    /\ matched_count' = matched_count + 1
    /\ ch_i' = ch_i + 1
    /\ UNCHANGED <<escVars, folder, jobVars, procVars, poolVars, pc, subVars, offVars, runVars, subtitle_lines, aligned_chars, final_subtitles,
                   fallback_count, total_script_chars, line_i>>

\* mutant: an unmatched character leaves the cursor where it is
MapFallbackStalls ==
    /\ AtChar
    /\ char \notin skip_chars
    /\ MatchOffsets(char) = {}
    /\ char_idx < total_chars
    /\ LET item == aligned_chars[char_idx + 1]
       IN  /\ start_time' = IF start_time = None THEN <<item.start>> ELSE start_time
           /\ end_time' = <<item.end>>
           /\ current_time4' = item.end
    /\ fallback_count' = fallback_count + 1
    /\ ch_i' = ch_i + 1
    /\ UNCHANGED <<escVars, folder, jobVars, procVars, poolVars, pc, subVars, offVars, runVars, subtitle_lines, aligned_chars, final_subtitles,
                   char_idx, matched_count, total_script_chars, line_i>>

\* not found and char_idx < total_chars: consume the entry at the cursor
MapFallbackConsume ==
    /\ AtChar
    /\ char \notin skip_chars
    /\ MatchOffsets(char) = {}
    /\ char_idx < total_chars
    /\ LET item == aligned_chars[char_idx + 1]
       IN  /\ start_time' = IF start_time = None THEN <<item.start>> ELSE start_time
           /\ end_time' = <<item.end>>
           /\ current_time4' = item.end
    /\ char_idx' = char_idx + 1
    /\ fallback_count' = fallback_count + 1
    /\ ch_i' = ch_i + 1
    /\ UNCHANGED <<escVars, folder, jobVars, procVars, poolVars, pc, subVars, offVars, runVars, subtitle_lines, aligned_chars, final_subtitles,
                   matched_count, total_script_chars, line_i>>

\* not found and the timeline is exhausted: use current_time
MapFallbackExhausted ==
    /\ AtChar
    /\ char \notin skip_chars
    /\ MatchOffsets(char) = {}
    /\ char_idx >= total_chars
    /\ start_time' = IF start_time = None THEN <<current_time4>> ELSE start_time
    /\ end_time' = <<current_time4>>
    /\ fallback_count' = fallback_count + 1
    /\ ch_i' = ch_i + 1
    /\ UNCHANGED <<escVars, folder, jobVars, procVars, poolVars, pc, subVars, offVars, runVars, subtitle_lines, aligned_chars, final_subtitles,
                   char_idx, matched_count, total_script_chars, current_time4,
                   line_i>>

\* mutant: the floor correction is left out
CueNoFloor(s, e, line) == [start |-> s, end |-> e, text |-> line]

\* the cue of a line whose start_time is not None, with the 0.5 s floor
Cue(s, e, line) ==
    [start |-> s, end |-> IF e <= s THEN s + HalfSecond ELSE e, text |-> line]

\* after the last character of the line: append the cue, next line
MapEndLine ==
    /\ pc = "s4_char"
    /\ ch_i > Len(line_clean)
    /\ final_subtitles' =
          IF start_time # None
          THEN Append(final_subtitles,
                      Cue(start_time[1], end_time[1], subtitle_lines[line_i]))
          ELSE final_subtitles
    /\ line_i' = line_i + 1
    /\ pc' = "s4_line"
    /\ UNCHANGED <<escVars, folder, jobVars, procVars, poolVars, subVars, offVars, runVars, subtitle_lines, aligned_chars, char_idx,
                   matched_count, fallback_count, total_script_chars,
                   current_time4, ch_i, start_time, end_time>>

\* after the last line: the coverage report, return final_subtitles
Step4Return ==
    /\ pc = "s4_line"
    /\ line_i > Len(subtitle_lines)
    /\ pc' = "done"
    /\ UNCHANGED <<escVars, folder, jobVars, procVars, poolVars, subVars, mapVars, offVars, runVars>>

\* _step4_align_timestamps as a function of its arguments.  The state of
\* the loops is [idx, cur, s, e, cues]: char_idx, current_time, start_time,
\* end_time and the (start, end) pairs of final_subtitles.
\* One iteration of `for char in line_clean`:
Step4Char(timeline, st, c) ==
    LET offs == {k \in 0..(Min({search_window, Len(timeline) - st.idx}) - 1) :
                    /\ timeline[st.idx + k + 1].char \notin skip_chars
                    /\ timeline[st.idx + k + 1].char = c}
        took(item, next) ==
            [st EXCEPT !.idx = next, !.cur = item.end,
                       !.s = IF st.s = None THEN <<item.start>> ELSE st.s,
                       !.e = <<item.end>>]
    IN  IF c \in skip_chars THEN st
        ELSE IF offs # {}
             THEN took(timeline[st.idx + Min(offs) + 1], st.idx + Min(offs) + 1)
        ELSE IF st.idx < Len(timeline)
             THEN took(timeline[st.idx + 1], st.idx + 1)
        ELSE [st EXCEPT !.s = IF st.s = None THEN <<st.cur>> ELSE st.s,
                        !.e = <<st.cur>>]

RECURSIVE Step4Chars(_, _, _)
Step4Chars(timeline, st, cs) ==
    IF cs = <<>> THEN st
    ELSE Step4Chars(timeline, Step4Char(timeline, st, Head(cs)), Tail(cs))

\* one iteration of `for line in subtitle_lines`
Step4Line(timeline, st, line) ==
    IF LineClean(line) = <<>> THEN st
    ELSE LET after == Step4Chars(timeline, [st EXCEPT !.s = None, !.e = None],
                                 LineClean(line))
         IN  IF after.s = None THEN after
             ELSE [after EXCEPT !.cues =
                      Append(after.cues,
                             <<after.s[1],
                               IF after.e[1] <= after.s[1]
                               THEN after.s[1] + HalfSecond ELSE after.e[1]>>)]

RECURSIVE Step4Lines(_, _, _)
Step4Lines(timeline, st, lines) ==
    IF lines = <<>> THEN st
    ELSE Step4Lines(timeline, Step4Line(timeline, st, Head(lines)), Tail(lines))

\* the (start, end) pairs of the cues returned and the final cursor
Step4AlignTimestamps(lines, timeline) ==
    LET st == Step4Lines(timeline,
                         [idx |-> 0,
                          cur |-> IF timeline # <<>> THEN timeline[1].start ELSE 0,
                          s |-> None, e |-> None, cues |-> <<>>],
                         lines)
    IN  [cues |-> st.cues, char_idx |-> st.idx]

LineTexts == SeqsUpTo(Letters \cup {Comma}, MaxLineLen)
LineLists == SeqsUpTo(LineTexts, MaxLines)

NextMap ==
    \/ \E lines \in LineLists : Step4Begin(lines)
    \/ MapEmptyLine
    \/ MapStartLine
    \/ MapSkipChar
    \/ MapMatch
    \/ MapFallbackConsume
    \/ MapFallbackExhausted
    \/ MapEndLine
    \/ Step4Return

NextSub == NextAlign \/ NextMap

\* ------------------------------------------------------ find_audio_offset
\* window = int(10.0 * sr)
WindowSeconds == 10

\* the circular cross-correlation irfft(rfft(main) * conj(rfft(padded)))[k]
\* for a reference of even length n: sum over m of main[(k + m) mod n] * seg[m]
\* (exact arithmetic; for an odd n numpy's irfft returns n - 1 points that
\* are not this sum, see FindOffsetOddLength)
RECURSIVE CorrFrom(_, _, _, _)
CorrFrom(main, seg, k, m) ==
    IF m >= Len(seg) THEN 0
    ELSE main[((k + m) % Len(main)) + 1] * seg[m + 1]
         + CorrFrom(main, seg, k, m + 1)

Corr(main, seg, k) == CorrFrom(main, seg, k, 0)

\* np.argmax over the indices lo..hi-1: the first index of the maximum
ArgMax(main, seg, lo, hi) ==
    LET best == Max({Corr(main, seg, k) : k \in lo..(hi - 1)})
    IN  Min({k \in lo..(hi - 1) : Corr(main, seg, k) = best})

\* hint_idx = int(start_hint * sr)
HintIdx(hint, rate) == hint * rate
Window(rate) == WindowSeconds * rate
SearchStart(hint_idx, rate) == Max({0, hint_idx - Window(rate) \div 2})
SearchEnd(n, hint_idx, rate) == Min({n, hint_idx + Window(rate) * 2})

\* len(corr): irfft returns 2 * (n \div 2 + 1 - 1) points
CorrLen(n) == 2 * (n \div 2)

\* mutant: without the length check the assignment into segment_padded raises
FindOffsetTooLongRaises ==
    /\ pc = "offset_call"
    /\ Len(segment_audio) > Len(main_audio)
    /\ pc' = "offset_error"
    /\ UNCHANGED <<escVars, folder, jobVars, procVars, poolVars, subVars, mapVars, runVars, offVars>>

\* if len(segment_audio) > len(main_audio): return 0.0
FindOffsetTooLong ==
    /\ pc = "offset_call"
    /\ Len(segment_audio) > Len(main_audio)
    /\ peak_idx' = 0
    /\ pc' = "offset_done"
    /\ UNCHANGED <<escVars, folder, jobVars, procVars, poolVars, subVars, mapVars, runVars, main_audio, segment_audio, sr,
                   start_hint>>

\* search_start < search_end: the first maximum inside the window
FindOffsetWindow ==
    /\ pc = "offset_call"
    /\ Len(segment_audio) <= Len(main_audio)
    /\ Len(main_audio) % 2 = 0
    /\ LET n == Len(main_audio)
           search_start == SearchStart(HintIdx(start_hint, sr), sr)
           search_end == SearchEnd(n, HintIdx(start_hint, sr), sr)
       IN  /\ search_start < search_end
           /\ peak_idx' = ArgMax(main_audio, segment_audio, search_start, search_end)
    /\ pc' = "offset_done"
    /\ UNCHANGED <<escVars, folder, jobVars, procVars, poolVars, subVars, mapVars, runVars, main_audio, segment_audio, sr,
                   start_hint>>

\* search_start >= search_end: np.argmax(corr) over the whole output
FindOffsetWhole ==
    /\ pc = "offset_call"
    /\ Len(segment_audio) <= Len(main_audio)
    /\ Len(main_audio) % 2 = 0
    /\ Len(main_audio) > 0
    /\ LET n == Len(main_audio)
       IN  /\ SearchStart(HintIdx(start_hint, sr), sr)
                 >= SearchEnd(n, HintIdx(start_hint, sr), sr)
           /\ peak_idx' = ArgMax(main_audio, segment_audio, 0, n)
    /\ pc' = "offset_done"
    /\ UNCHANGED <<escVars, folder, jobVars, procVars, poolVars, subVars, mapVars, runVars, main_audio, segment_audio, sr,
                   start_hint>>

\* the indices np.argmax can return for a corr of corr_len points
ArgMaxLo(n, hint_idx, rate) ==
    IF SearchStart(hint_idx, rate) < SearchEnd(n, hint_idx, rate)
    THEN SearchStart(hint_idx, rate) ELSE 0
ArgMaxHi(n, corr_len, hint_idx, rate) ==
    IF SearchStart(hint_idx, rate) < SearchEnd(n, hint_idx, rate)
    THEN Min({SearchEnd(n, hint_idx, rate), corr_len}) - 1 ELSE corr_len - 1
ArgMaxRange(n, corr_len, hint_idx, rate) ==
    ArgMaxLo(n, hint_idx, rate)..ArgMaxHi(n, corr_len, hint_idx, rate)

\* odd len(main_audio): corr has n - 1 points whose values are not the
\* circular correlation; the model lets the maximum fall on any of them
FindOffsetOddLength ==
    /\ pc = "offset_call"
    /\ Len(segment_audio) <= Len(main_audio)
    /\ Len(main_audio) % 2 = 1
    /\ peak_idx' \in ArgMaxRange(Len(main_audio), CorrLen(Len(main_audio)),
                                HintIdx(start_hint, sr), sr)
    /\ pc' = "offset_done"
    /\ UNCHANGED <<escVars, folder, jobVars, procVars, poolVars, subVars, mapVars, runVars, main_audio, segment_audio, sr,
                   start_hint>>

\* np.argmax of an empty slice raises ValueError
FindOffsetRaises ==
    /\ pc = "offset_call"
    /\ Len(segment_audio) <= Len(main_audio)
    /\ ArgMaxRange(Len(main_audio), CorrLen(Len(main_audio)),
                   HintIdx(start_hint, sr), sr) = {}
    /\ pc' = "offset_error"
    /\ UNCHANGED <<escVars, folder, jobVars, procVars, poolVars, subVars, mapVars, runVars, offVars>>

NextOffset ==
    \/ FindOffsetTooLong
    \/ FindOffsetWindow
    \/ FindOffsetWhole
    \/ FindOffsetOddLength
    \/ FindOffsetRaises

\* -------------------------------------- run(): detection and allocation
\* target_sr / sr of every call in run()
SR == 8000
\* VideoConfig.FPS
FPS == 24

\* the grid of the sample counts and offsets of the model: 5/16 s, which is
\* 7.5 frames, so that frame positions fall on and between rounding ties
Grid == 5 * (SR \div 16)

\* int(round(a / b)) for a >= 0, b > 0: Python rounds a tie to the even integer
RoundHalfEven(a, b) ==
    LET q == a \div b
        r == a % b
    IN  IF 2 * r < b THEN q
        ELSE IF 2 * r > b THEN q + 1
        ELSE IF q % 2 = 0 THEN q ELSE q + 1

\* int(round(t * fps)) for t = samples / 8000 seconds
FrameOf(samples) == RoundHalfEven(samples * FPS, SR)

\* the offsets (in samples) find_audio_offset can return in run() for a
\* reference of n samples (a multiple of Grid, hence even), a clip of
\* seg_len samples and hint_idx = int(current_hint * 8000): of the indices
\* of the search range, the model takes those on the grid and the last one
OffsetCandidates(n, seg_len, hint_idx) ==
    IF seg_len > n THEN {0}
    ELSE LET lo == ArgMaxLo(n, hint_idx, SR)
             hi == ArgMaxHi(n, CorrLen(n), hint_idx, SR)
         IN  {k \in {q * Grid : q \in 0..(n \div Grid)} \cup {hi} :
                 lo <= k /\ k <= hi}

NumPairs == Len(seg_samples)

\* mutant: the hint is seeded with the detected start alone
RunDetectHintAtStart ==
    /\ pc = "run_detect"
    /\ Len(start_times) < NumPairs
    /\ LET seg_len == seg_samples[Len(start_times) + 1]
       IN  \E start \in OffsetCandidates(main_samples, seg_len, current_hint) :
               /\ start_times' = Append(start_times, start)
               /\ current_hint' = start
    /\ UNCHANGED <<escVars, folder, jobVars, procVars, poolVars, pc, subVars, mapVars, offVars, main_samples, seg_samples,
                   alloc_i, duration_frames, exact_durations, target_durations>>

\* one iteration of the detection loop: the next pair's start time, and
\* current_hint = start_time + seg_duration
RunDetect ==
    /\ pc = "run_detect"
    /\ Len(start_times) < NumPairs
    /\ LET seg_len == seg_samples[Len(start_times) + 1]
       IN  \E start \in OffsetCandidates(main_samples, seg_len, current_hint) :
               /\ start_times' = Append(start_times, start)
               /\ current_hint' = start + seg_len
    /\ UNCHANGED <<escVars, folder, jobVars, procVars, poolVars, pc, subVars, mapVars, offVars, main_samples, seg_samples,
                   alloc_i, duration_frames, exact_durations, target_durations>>

\* the detection loop has ended
RunDetected ==
    /\ pc = "run_detect"
    /\ Len(start_times) = NumPairs
    /\ pc' = "run_alloc"
    /\ alloc_i' = 1
    /\ UNCHANGED <<escVars, folder, jobVars, procVars, poolVars, subVars, mapVars, offVars, main_samples, seg_samples,
                   current_hint, start_times, duration_frames, exact_durations,
                   target_durations>>

\* duration_frames of segment i: up to the next start, or for the last
\* segment up to the end of the avatar track
DurationFrames(i) ==
    IF i < NumPairs
    THEN FrameOf(start_times[i + 1]) - FrameOf(start_times[i])
    ELSE FrameOf(main_samples) - FrameOf(start_times[i])

\* get_audio_duration of the clip of pair i, taken as its decoded length
\* len(seg_audio) / 8000 s, in units of 1 / (FPS * SR) s
MeasuredDuration(i) == seg_samples[i] * FPS

\* the check of a segment before the last: duration <= 0.1
BelowFloor(frames) == 10 * frames <= FPS

Allocate(frames, duration) ==
    /\ duration_frames' = Append(duration_frames, frames)
    /\ exact_durations' = Append(exact_durations, duration)
    /\ alloc_i' = alloc_i + 1
    /\ UNCHANGED <<escVars, folder, jobVars, procVars, poolVars, pc, subVars, mapVars, offVars, main_samples, seg_samples,
                   current_hint, start_times, target_durations>>

\* i < len(sorted_pairs) - 1, duration > 0.1
RunAllocNext ==
    /\ pc = "run_alloc"
    /\ alloc_i < NumPairs
    /\ ~BelowFloor(DurationFrames(alloc_i))
    /\ Allocate(DurationFrames(alloc_i), DurationFrames(alloc_i) * SR)

\* i < len(sorted_pairs) - 1, duration <= 0.1: the clip's own duration
RunAllocNextFallback ==
    /\ pc = "run_alloc"
    /\ alloc_i < NumPairs
    /\ BelowFloor(DurationFrames(alloc_i))
    /\ Allocate(DurationFrames(alloc_i), MeasuredDuration(alloc_i))

\* the last segment, duration > 0
RunAllocLast ==
    /\ pc = "run_alloc"
    /\ alloc_i = NumPairs
    /\ DurationFrames(alloc_i) > 0
    /\ Allocate(DurationFrames(alloc_i), DurationFrames(alloc_i) * SR)

\* the last segment, duration <= 0: the clip's own duration
RunAllocLastFallback ==
    /\ pc = "run_alloc"
    /\ alloc_i = NumPairs
    /\ DurationFrames(alloc_i) <= 0
    /\ Allocate(DurationFrames(alloc_i), MeasuredDuration(alloc_i))

\* the allocation loop has ended: exact_durations goes to create_segment_videos
RunAllocated ==
    /\ pc = "run_alloc"
    /\ alloc_i > NumPairs
    /\ pc' = "run_segments"
    /\ UNCHANGED <<escVars, folder, jobVars, procVars, poolVars, subVars, mapVars, offVars, runVars>>

\* ------------------------------------------------- create_segment_videos
\* the call create_segment_videos(pairs, temp_path, exact_durations): no
\* worker has run yet
CreateSegmentVideos ==
    /\ pc = "run_segments"
    /\ pc' = "segment_workers"
    /\ target_durations' = [i \in 1..NumPairs |-> None]
    /\ UNCHANGED <<escVars, folder, jobVars, procVars, poolVars, subVars, mapVars, offVars, main_samples, seg_samples,
                   current_hint, start_times, alloc_i, duration_frames,
                   exact_durations>>

\* original_duration = get_audio_duration(mp3_path) of pair i
OriginalDuration(i) == MeasuredDuration(i)

\* process_single_segment runs for pair i and passes target to ffmpeg -t
ProcessSingleSegment(i, target) ==
    /\ pc = "segment_workers"
    /\ target_durations[i] = None
    /\ target_durations' = [target_durations EXCEPT ![i] = <<target>>]
    /\ UNCHANGED <<escVars, folder, jobVars, procVars, poolVars, pc, subVars, mapVars, offVars, main_samples, seg_samples,
                   current_hint, start_times, alloc_i, duration_frames,
                   exact_durations>>

\* target_duration = durations.get(seq), not below the clip's own duration
ProcessSegmentKept ==
    /\ pc = "segment_workers"
    /\ \E i \in 1..NumPairs :
          /\ exact_durations[i] >= OriginalDuration(i)
          /\ ProcessSingleSegment(i, exact_durations[i])

\* if target_duration < original_duration: target_duration = original_duration
ProcessSegmentRaised ==
    /\ pc = "segment_workers"
    /\ \E i \in 1..NumPairs :
          /\ exact_durations[i] < OriginalDuration(i)
          /\ ProcessSingleSegment(i, OriginalDuration(i))

\* executor.map has returned every worker's result
SegmentsCreated ==
    /\ pc = "segment_workers"
    /\ \A i \in 1..NumPairs : target_durations[i] # None
    /\ pc' = "run_concat"
    /\ UNCHANGED <<escVars, folder, jobVars, procVars, poolVars, subVars, mapVars, offVars, runVars>>

\* ---------------------------------------------------- find_matching_pairs
DigitChars == {"0", "1", "2", "9"}
DigitValue(c) == CASE c = "0" -> 0 [] c = "1" -> 1 [] c = "2" -> 2 [] c = "9" -> 9

\* the code points of the characters of the stems
CodePoint(c) ==
    CASE c = "-" -> 45 [] c = "0" -> 48 [] c = "1" -> 49 [] c = "2" -> 50
      [] c = "9" -> 57 [] c = "B" -> 66 [] c = "a" -> 97

IsDigits(x) == x # <<>> /\ \A k \in 1..Len(x) : x[k] \in DigitChars

\* int(x) does not raise ValueError: decimal digits with an optional sign
IntParses(x) ==
    \/ IsDigits(x)
    \/ Len(x) >= 2 /\ x[1] = "-" /\ IsDigits(Tail(x))

RECURSIVE DigitsOf(_, _)
DigitsOf(x, acc) ==
    IF x = <<>> THEN acc ELSE DigitsOf(Tail(x), 10 * acc + DigitValue(Head(x)))

\* int(x)
IntOf(x) == IF x[1] = "-" THEN 0 - DigitsOf(Tail(x), 0) ELSE DigitsOf(x, 0)

\* a < b for Python strings: by code points, a proper prefix first
RECURSIVE StrLess(_, _)
StrLess(a, b) ==
    IF b = <<>> THEN FALSE
    ELSE IF a = <<>> THEN TRUE
    ELSE IF Head(a) # Head(b) THEN CodePoint(Head(a)) < CodePoint(Head(b))
    ELSE StrLess(Tail(a), Tail(b))

\* mutant: the key is the stem itself
numeric_sort_key_text(x) == <<1, x>>

\* numeric_sort_key: (0, int(x)), or (1, x) on ValueError
numeric_sort_key(x) == IF IntParses(x) THEN <<0, IntOf(x)>> ELSE <<1, x>>

\* k1 < k2 for the key tuples
KeyLess(k1, k2) ==
    \/ k1[1] < k2[1]
    \/ /\ k1[1] = k2[1]
       /\ IF k1[1] = 0 THEN k1[2] < k2[2] ELSE StrLess(k1[2], k2[2])

\* sorted(seq, key=numeric_sort_key): stable, an element goes behind the
\* elements whose key is not greater
RECURSIVE InsertByKey(_, _)
InsertByKey(sorted, x) ==
    IF sorted = <<>> THEN <<x>>
    ELSE IF KeyLess(numeric_sort_key(x), numeric_sort_key(Head(sorted)))
         THEN <<x>> \o sorted
    ELSE <<Head(sorted)>> \o InsertByKey(Tail(sorted), x)

RECURSIVE SortedByKey(_, _)
SortedByKey(seq, acc) ==
    IF seq = <<>> THEN acc
    ELSE SortedByKey(Tail(seq), InsertByKey(acc, Head(seq)))

\* suffix = file.suffix.lower()
Lower(suffix) ==
    CASE suffix = ".PNG" -> ".png" [] suffix = ".JPG" -> ".jpg" [] OTHER -> suffix

ImageSuffixes == {".png", ".jpg", ".jpeg"}
image_files == {f.stem : f \in {g \in folder : Lower(g.suffix) \in ImageSuffixes}}
mp3_files == {f.stem : f \in {g \in folder : Lower(g.suffix) = ".mp3"}}
common_keys == image_files \cap mp3_files

\* the orders in which a set can be iterated
Iterations(S) ==
    {seq \in [1..Cardinality(S) -> S] : \A x \in S : \E k \in DOMAIN seq : seq[k] = x}

\* if not common_keys: return []
FindNoPairs ==
    /\ pc = "pairs_call"
    /\ common_keys = {}
    /\ pairs' = <<>>
    /\ pc' = "pairs_done"
    /\ UNCHANGED <<escVars, subVars, mapVars, offVars, runVars, procVars, jobVars, folder,
                   worker_pc, print_lock, completed_count, loaded_count, written,
                   returned, segments, progress_log>>

\* for key in sorted(common_keys, key=numeric_sort_key): pairs.append(...)
FindPairs ==
    /\ pc = "pairs_call"
    /\ common_keys # {}
    /\ \E iteration \in Iterations(common_keys) :
          pairs' = SortedByKey(iteration, <<>>)
    /\ pc' = "pairs_done"
    /\ UNCHANGED <<escVars, subVars, mapVars, offVars, runVars, procVars, jobVars, folder,
                   worker_pc, print_lock, completed_count, loaded_count, written,
                   returned, segments, progress_log>>

NextPairs == FindNoPairs \/ FindPairs

\* ------------------------------- create_segment_videos: the worker threads
\* ProcessingConfig.MAX_WORKERS
MAX_WORKERS == 8

\* output_segment = temp_dir / f"segment_{seq}.mp4" of pair i
OutputSegment(i) == <<"segment", pairs[i]>>

Workers == 1..Len(pairs)
Running == {i \in Workers : worker_pc[i] \notin {"queued", "done"}}

\* segments = [None] * len(pairs); completed_count = 0; the work items are
\* handed to executor.map
PoolStart ==
    /\ pc = "pool_call"
    /\ segments' = [i \in Workers |-> None]
    /\ completed_count' = 0
    /\ print_lock' = 0
    /\ worker_pc' = [i \in Workers |-> "queued"]
    /\ loaded_count' = [i \in Workers |-> 0]
    /\ returned' = [i \in Workers |-> None]
    /\ target_durations' = [i \in Workers |-> None]
    /\ written' = {}
    /\ progress_log' = <<>>
    /\ pc' = "pool_map"
    /\ UNCHANGED <<escVars, folder, jobVars, procVars, subVars, mapVars, offVars, main_samples, seg_samples,
                   current_hint, start_times, alloc_i, duration_frames,
                   exact_durations, pairs>>

\* a thread of the pool takes work item i: the items are taken in list
\* order, by at most MAX_WORKERS threads at a time
CanStart(i) ==
    /\ pc = "pool_map"
    /\ worker_pc[i] = "queued"
    /\ \A h \in 1..(i - 1) : worker_pc[h] # "queued"
    /\ Cardinality(Running) < MAX_WORKERS

WorkerTarget(i, target) ==
    /\ target_durations' = [target_durations EXCEPT ![i] = <<target>>]
    /\ worker_pc' = [worker_pc EXCEPT ![i] = "ffmpeg"]
    /\ UNCHANGED <<escVars, folder, jobVars, procVars, pc, subVars, mapVars, offVars, main_samples, seg_samples,
                   current_hint, start_times, alloc_i, duration_frames,
                   exact_durations, pairs, print_lock, completed_count,
                   loaded_count, written, returned, segments, progress_log>>

\* target_duration = durations.get(seq, 0.0), not below original_duration
WorkerTargetKept ==
    \E i \in Workers :
        /\ CanStart(i)
        /\ exact_durations[i] >= OriginalDuration(i)
        /\ WorkerTarget(i, exact_durations[i])

\* target_duration < original_duration: the warning is printed under
\* print_lock and the clip's own duration is taken
WorkerTargetRaised ==
    \E i \in Workers :
        /\ CanStart(i)
        /\ exact_durations[i] < OriginalDuration(i)
        /\ print_lock = 0
        /\ WorkerTarget(i, OriginalDuration(i))

\* subprocess.run(cmd): ffmpeg writes output_segment
WorkerFfmpeg ==
    \E i \in Workers :
        /\ pc = "pool_map"
        /\ worker_pc[i] = "ffmpeg"
        /\ written' = written \cup {[file |-> OutputSegment(i), by |-> i]}
        /\ worker_pc' = [worker_pc EXCEPT ![i] = "lock"]
        /\ UNCHANGED <<escVars, folder, jobVars, procVars, pc, subVars, mapVars, offVars, runVars, pairs, print_lock,
                       completed_count, loaded_count, returned, segments,
                       progress_log>>

\* mutant: the counter is updated without waiting for the lock
WorkerAcquireNoWait ==
    \E i \in Workers :
        /\ pc = "pool_map"
        /\ worker_pc[i] = "lock"
        /\ print_lock' = i
        /\ worker_pc' = [worker_pc EXCEPT ![i] = "load"]
        /\ UNCHANGED <<escVars, folder, jobVars, procVars, pc, subVars, mapVars, offVars, runVars, pairs,
                       completed_count, loaded_count, written, returned, segments,
                       progress_log>>

\* with print_lock: the worker waits until the lock is free
WorkerAcquire ==
    \E i \in Workers :
        /\ pc = "pool_map"
        /\ worker_pc[i] = "lock"
        /\ print_lock = 0
        /\ print_lock' = i
        /\ worker_pc' = [worker_pc EXCEPT ![i] = "load"]
        /\ UNCHANGED <<escVars, folder, jobVars, procVars, pc, subVars, mapVars, offVars, runVars, pairs,
                       completed_count, loaded_count, written, returned, segments,
                       progress_log>>

\* completed_count += 1: the value is read
WorkerCountLoad ==
    \E i \in Workers :
        /\ pc = "pool_map"
        /\ worker_pc[i] = "load"
        /\ loaded_count' = [loaded_count EXCEPT ![i] = completed_count]
        /\ worker_pc' = [worker_pc EXCEPT ![i] = "store"]
        /\ UNCHANGED <<escVars, folder, jobVars, procVars, pc, subVars, mapVars, offVars, runVars, pairs, print_lock,
                       completed_count, written, returned, segments, progress_log>>

\* completed_count += 1: the sum is stored; the progress line is printed
WorkerCountStore ==
    \E i \in Workers :
        /\ pc = "pool_map"
        /\ worker_pc[i] = "store"
        /\ completed_count' = loaded_count[i] + 1
        /\ progress_log' = Append(progress_log, pairs[i])
        /\ worker_pc' = [worker_pc EXCEPT ![i] = "release"]
        /\ UNCHANGED <<escVars, folder, jobVars, procVars, pc, subVars, mapVars, offVars, runVars, pairs, print_lock,
                       loaded_count, written, returned, segments>>

\* the lock is released; return idx, output_segment
WorkerReturn ==
    \E i \in Workers :
        /\ pc = "pool_map"
        /\ worker_pc[i] = "release"
        /\ print_lock' = 0
        /\ returned' = [returned EXCEPT ![i] = <<i, OutputSegment(i)>>]
        /\ worker_pc' = [worker_pc EXCEPT ![i] = "done"]
        /\ UNCHANGED <<escVars, folder, jobVars, procVars, pc, subVars, mapVars, offVars, runVars, pairs,
                       completed_count, loaded_count, written, segments,
                       progress_log>>

\* results = list(executor.map(...)): the results in the order of the work items
MapResults == [i \in Workers |-> returned[i]]

\* the output files in the order in which the workers completed
CompletionOrder == [k \in 1..Len(progress_log) |-> <<"segment", progress_log[k]>>]

\* mutant: the segments are joined in completion order
CollectAsCompleted ==
    /\ pc = "pool_map"
    /\ \A i \in Workers : worker_pc[i] = "done"
    /\ segments' = CompletionOrder
    /\ pc' = "pool_return"
    /\ UNCHANGED <<escVars, folder, jobVars, procVars, subVars, mapVars, offVars, runVars, pairs, worker_pc,
                   print_lock, completed_count, loaded_count, written, returned,
                   progress_log>>

\* the executor has shut down; for idx, path in results: segments[idx] = path
CollectResults ==
    /\ pc = "pool_map"
    /\ \A i \in Workers : worker_pc[i] = "done"
    /\ segments' = [i \in Workers |->
                      LET r == CHOOSE r \in {MapResults[k] : k \in Workers} : r[1] = i
                      IN  r[2]]
    /\ pc' = "pool_return"
    /\ UNCHANGED <<escVars, folder, jobVars, procVars, subVars, mapVars, offVars, runVars, pairs, worker_pc,
                   print_lock, completed_count, loaded_count, written, returned,
                   progress_log>>

NextPool ==
    \/ PoolStart
    \/ WorkerTargetKept
    \/ WorkerTargetRaised
    \/ WorkerFfmpeg
    \/ WorkerAcquire
    \/ WorkerCountLoad
    \/ WorkerCountStore
    \/ WorkerReturn
    \/ CollectResults

NextRun ==
    \/ RunDetect
    \/ RunDetected
    \/ RunAllocNext
    \/ RunAllocNextFallback
    \/ RunAllocLast
    \/ RunAllocLastFallback
    \/ RunAllocated
    \/ CreateSegmentVideos
    \/ ProcessSegmentKept
    \/ ProcessSegmentRaised
    \/ SegmentsCreated

\* ------------------------------------------------- VideoProcessor.process
\* srt_path.exists()
srt_exists == srt_existed \/ srt_writes > 0

ProcessBranch(next, log) ==
    /\ pc = "process_call"
    /\ pc' = next
    /\ proc_log' = log
    /\ UNCHANGED <<escVars, folder, jobVars, subVars, mapVars, offVars, runVars, poolVars, skip_subtitle,
                   debug, script_exists, avatar_exists, srt_existed, srt_writes>>

\* mutant: an existing subtitle file is generated again
ProcessKeepSubtitleRegenerates ==
    /\ ~skip_subtitle /\ script_exists /\ srt_exists
    /\ ProcessBranch("subtitle_generate", Append(proc_log, "generate"))

\* not skip_subtitle and script_path.exists(), srt_path.exists(): the
\* existing file is reported and kept
ProcessKeepSubtitle ==
    /\ ~skip_subtitle /\ script_exists /\ srt_exists
    /\ ProcessBranch("assemble_call", proc_log)

\* not skip_subtitle and script_path.exists(), no srt:
\* self.subtitle_service.generate(folder_path, debug=debug)
ProcessGenerate ==
    /\ ~skip_subtitle /\ script_exists /\ ~srt_exists
    /\ ProcessBranch("subtitle_generate", Append(proc_log, "generate"))

\* elif skip_subtitle
ProcessSkipSubtitle ==
    /\ skip_subtitle
    /\ ProcessBranch("assemble_call", proc_log)

\* else: no script
ProcessNoScript ==
    /\ ~skip_subtitle /\ ~script_exists
    /\ ProcessBranch("assemble_call", proc_log)

\* generate returns: _save_srt has written full_subtitle.srt
GenerateReturns ==
    /\ pc = "subtitle_generate"
    /\ avatar_exists
    /\ srt_writes' = srt_writes + 1
    /\ pc' = "assemble_call"
    /\ UNCHANGED <<escVars, folder, jobVars, subVars, mapVars, offVars, runVars, poolVars, skip_subtitle,
                   debug, script_exists, avatar_exists, srt_existed, proc_log>>

\* generate raises (_validate_files, or any step before _save_srt): the
\* exception leaves process
GenerateRaises ==
    /\ pc = "subtitle_generate"
    /\ pc' = "process_raised"
    /\ UNCHANGED <<escVars, folder, jobVars, subVars, mapVars, offVars, runVars, poolVars, procVars>>

\* video_path = self.assembly_service.assemble(folder_path, output_path)
ProcessAssemble ==
    /\ pc = "assemble_call"
    /\ proc_log' = Append(proc_log, "assemble")
    /\ pc' = "assemble_run"
    /\ UNCHANGED <<escVars, folder, jobVars, subVars, mapVars, offVars, runVars, poolVars, skip_subtitle,
                   debug, script_exists, avatar_exists, srt_existed, srt_writes>>

\* assemble returns the video path; process returns it
AssembleReturns ==
    /\ pc = "assemble_run"
    /\ avatar_exists
    /\ pc' = "process_return"
    /\ UNCHANGED <<escVars, folder, jobVars, subVars, mapVars, offVars, runVars, poolVars, procVars>>

\* assemble raises (no avatar video, no pair, ffmpeg failure)
AssembleRaises ==
    /\ pc = "assemble_run"
    /\ pc' = "process_raised"
    /\ UNCHANGED <<escVars, folder, jobVars, subVars, mapVars, offVars, runVars, poolVars, procVars>>

NextProcess ==
    \/ ProcessKeepSubtitle
    \/ ProcessGenerate
    \/ ProcessSkipSubtitle
    \/ ProcessNoScript
    \/ GenerateReturns
    \/ GenerateRaises
    \/ ProcessAssemble
    \/ AssembleReturns
    \/ AssembleRaises

\* ------------------------------------------------------- api/routes: jobs
\* class JobStatus
PENDING == "pending"
PROCESSING == "processing"
COMPLETED == "completed"
FAILED == "failed"

\* the messages process_video_task stores while it works, in order
StageMessages ==
    <<"downloading", "processing video", "uploading", "uploading debug files">>

Entry(status, message) == [status |-> status, message |-> message]

\* the endpoint of a submission: jobs[job_id] = PENDING entry, then
\* background_tasks.add_task(...).  generate_job_id returns the first eight
\* characters of a random UUID: any id, also one already in jobs
Submit(kind) ==
    /\ pc = "serving"
    /\ running = 0
    /\ Len(tasks) < MaxJobs
    /\ \E job_id \in JobIds, callback_url \in CallbackUrls :
          /\ jobs' = [jobs EXCEPT ![job_id] = Entry(PENDING, "scheduled")]
          /\ tasks' = Append(tasks, [job_id |-> job_id, kind |-> kind,
                                     callback_url |-> callback_url,
                                     pc |-> "queued", stage |-> 0,
                                     stored |-> "none"])
    /\ UNCHANGED <<escVars, folder, pc, subVars, mapVars, offVars, runVars, poolVars, procVars,
                   running, webhooks>>

\* POST /process-video-online
ProcessVideo ==
    /\ pc = "serving"
    /\ Submit("drive")

\* POST /process-video-local, the folder exists
ProcessLocal ==
    /\ pc = "serving"
    /\ Submit("local")

TaskAt(t, at) == pc = "serving" /\ t \in 1..Len(tasks) /\ tasks[t].pc = at

\* the background task starts: jobs[job_id] = PROCESSING entry; it runs
\* without awaiting until send_webhook
TaskStart(t) ==
    /\ TaskAt(t, "queued")
    /\ running = 0
    /\ running' = t
    /\ jobs' = [jobs EXCEPT ![tasks[t].job_id] = Entry(PROCESSING, "processing")]
    /\ tasks' = [tasks EXCEPT ![t].pc = "try"]
    /\ UNCHANGED <<escVars, folder, pc, subVars, mapVars, offVars, runVars, poolVars, procVars,
                   webhooks>>

\* process_video_task: jobs[job_id]["message"] = ... before the next step
TaskStage(t) ==
    /\ TaskAt(t, "try")
    /\ running = t
    /\ tasks[t].kind = "drive"
    /\ tasks[t].stage < Len(StageMessages)
    /\ jobs' = [jobs EXCEPT ![tasks[t].job_id].message =
                                StageMessages[tasks[t].stage + 1]]
    /\ tasks' = [tasks EXCEPT ![t].stage = tasks[t].stage + 1]
    /\ UNCHANGED <<escVars, folder, pc, subVars, mapVars, offVars, runVars, poolVars, procVars,
                   running, webhooks>>

\* the terminal entry is stored; the payload of the webhook is built
TaskStore(t, status, message) ==
    /\ TaskAt(t, "try")
    /\ running = t
    /\ jobs' = [jobs EXCEPT ![tasks[t].job_id] = Entry(status, message)]
    /\ tasks' = [tasks EXCEPT ![t].pc = "send", ![t].stored = status]
    /\ UNCHANGED <<escVars, folder, pc, subVars, mapVars, offVars, runVars, poolVars, procVars,
                   running, webhooks>>

\* the steps of the try block have returned: jobs[job_id] = COMPLETED entry
TaskCompleted(t) ==
    /\ TaskAt(t, "try")
    /\ tasks[t].kind = "drive" => tasks[t].stage = Len(StageMessages)
    /\ TaskStore(t, COMPLETED, "done")

\* a step of the try block raises: except Exception stores the FAILED entry
TaskFailed(t) ==
    /\ TaskAt(t, "try")
    /\ TaskStore(t, FAILED, "error")

\* mutant: the webhook is posted a second time
WebhookPostTwice(t) ==
    /\ TaskAt(t, "send")
    /\ running = t
    /\ running' = 0
    /\ webhooks' = webhooks \o
                     << [task |-> t, callback_url |-> tasks[t].callback_url,
                         job_id |-> tasks[t].job_id, status |-> tasks[t].stored],
                        [task |-> t, callback_url |-> tasks[t].callback_url,
                         job_id |-> tasks[t].job_id, status |-> tasks[t].stored] >>
    /\ tasks' = [tasks EXCEPT ![t].pc = "posting"]
    /\ UNCHANGED <<escVars, folder, pc, subVars, mapVars, offVars, runVars, poolVars, procVars,
                   jobs>>

\* send_webhook: await client.post(callback_url, json=payload.model_dump());
\* the task yields the event loop
WebhookPost(t) ==
    /\ TaskAt(t, "send")
    /\ running = t
    /\ running' = 0
    /\ webhooks' = Append(webhooks,
                          [task |-> t, callback_url |-> tasks[t].callback_url,
                           job_id |-> tasks[t].job_id, status |-> tasks[t].stored])
    /\ tasks' = [tasks EXCEPT ![t].pc = "posting"]
    /\ UNCHANGED <<escVars, folder, pc, subVars, mapVars, offVars, runVars, poolVars, procVars,
                   jobs>>

\* the post returns a response, or raises and the exception is printed:
\* the task ends
WebhookSettled(t, outcome) ==
    /\ TaskAt(t, "posting")
    /\ running = 0
    /\ tasks' = [tasks EXCEPT ![t].pc = outcome]
    /\ UNCHANGED <<escVars, folder, pc, subVars, mapVars, offVars, runVars, poolVars, procVars,
                   jobs, running, webhooks>>

\* print: the post was sent
WebhookDelivered(t) ==
    /\ TaskAt(t, "posting")
    /\ WebhookSettled(t, "delivered")

\* except Exception: the failure is printed
WebhookLost(t) ==
    /\ TaskAt(t, "posting")
    /\ WebhookSettled(t, "lost")

\* a step of task t
TaskStep(t) ==
    \/ TaskStart(t)
    \/ TaskStage(t)
    \/ TaskCompleted(t)
    \/ TaskFailed(t)
    \/ WebhookPost(t)
    \/ WebhookDelivered(t)
    \/ WebhookLost(t)

NextJobs ==
    \/ ProcessVideo
    \/ ProcessLocal
    \/ \E t \in 1..MaxJobs : TaskStart(t)
    \/ \E t \in 1..MaxJobs : TaskStage(t)
    \/ \E t \in 1..MaxJobs : TaskCompleted(t)
    \/ \E t \in 1..MaxJobs : TaskFailed(t)
    \/ \E t \in 1..MaxJobs : WebhookPost(t)
    \/ \E t \in 1..MaxJobs : WebhookDelivered(t)
    \/ \E t \in 1..MaxJobs : WebhookLost(t)

\* ---------------------------------------------- escape_ffmpeg_filter_path
Backslash == "\\"

\* s.replace(old, new) for a character old and a string new
RECURSIVE Replace(_, _, _)
Replace(s, old, new) ==
    IF s = <<>> THEN <<>>
    ELSE (IF Head(s) = old THEN new ELSE <<Head(s)>>) \o Replace(Tail(s), old, new)

\* mutant: the colon is escaped before the backslashes are replaced
EscapeWindowsColonFirst ==
    /\ pc = "escape_call"
    /\ os_name = "windows"
    /\ escaped' = Replace(Replace(Replace(path, ":", <<Backslash, ":">>),
                                  Backslash, <<"/">>),
                          " ", <<Backslash, " ">>)
    /\ pc' = "escape_done"
    /\ UNCHANGED <<subVars, mapVars, offVars, runVars, poolVars, procVars,
                   jobVars, folder, os_name, path>>

\* os_name == "windows": str(path).replace("\\", "/"), then
\* .replace(":", "\\:").replace(" ", "\\ ")
EscapeWindows ==
    /\ pc = "escape_call"
    /\ os_name = "windows"
    /\ LET path_str == Replace(path, Backslash, <<"/">>)
       IN  escaped' = Replace(Replace(path_str, ":", <<Backslash, ":">>),
                              " ", <<Backslash, " ">>)
    /\ pc' = "escape_done"
    /\ UNCHANGED <<subVars, mapVars, offVars, runVars, poolVars, procVars,
                   jobVars, folder, os_name, path>>

\* else: path.as_posix().replace(":", "\\:")
EscapePosix ==
    /\ pc = "escape_call"
    /\ os_name # "windows"
    /\ escaped' = Replace(path, ":", <<Backslash, ":">>)
    /\ pc' = "escape_done"
    /\ UNCHANGED <<subVars, mapVars, offVars, runVars, poolVars, procVars,
                   jobVars, folder, os_name, path>>

NextEscape == EscapeWindows \/ EscapePosix

\* ------------------------------------------------------------------ inputs
WordTexts == SeqsUpTo(Letters, MaxWordLen) \ {<<>>}
Ticks(maxTick) == {t * TimeScale : t \in 0..maxTick}
WordStamps(maxTick) == [word : WordTexts, start : Ticks(maxTick), end : Ticks(maxTick)]

\* WordTimestamp lists as the transcriber produces them: start <= end for
\* every word, time-ordered and non-overlapping
TimeOrdered(ws) ==
    /\ \A k \in 1..Len(ws) : ws[k].start <= ws[k].end
    /\ \A k \in 1..(Len(ws) - 1) : ws[k].end <= ws[k + 1].start

Transcriptions(n, maxTick) ==
    {ws \in SeqsUpTo(WordStamps(maxTick), n) : TimeOrdered(ws)}

Scripts == SeqsUpTo(Letters \cup {Comma, NL}, MaxScriptLen)

MapIdle ==
    /\ subtitle_lines = <<>>
    /\ aligned_chars = <<>>
    /\ final_subtitles = <<>>
    /\ char_idx = 0
    /\ matched_count = 0
    /\ fallback_count = 0
    /\ total_script_chars = 0
    /\ current_time4 = 0
    /\ line_i = 1
    /\ ch_i = 1
    /\ start_time = <<>>
    /\ end_time = <<>>

OffIdle ==
    /\ main_audio = <<>>
    /\ segment_audio = <<>>
    /\ sr = 1
    /\ start_hint = 0
    /\ peak_idx = 0

RunIdle ==
    /\ main_samples = 0
    /\ seg_samples = <<>>
    /\ current_hint = 0
    /\ start_times = <<>>
    /\ alloc_i = 1
    /\ duration_frames = <<>>
    /\ exact_durations = <<>>
    /\ target_durations = <<>>

EscIdle ==
    /\ os_name = "unknown"
    /\ path = <<>>
    /\ escaped = <<>>

JobsIdle ==
    /\ jobs = <<>>
    /\ tasks = <<>>
    /\ running = 0
    /\ webhooks = <<>>

ProcIdle ==
    /\ skip_subtitle = FALSE
    /\ debug = FALSE
    /\ script_exists = FALSE
    /\ avatar_exists = FALSE
    /\ srt_existed = FALSE
    /\ srt_writes = 0
    /\ proc_log = <<>>

PoolIdle ==
    /\ pairs = <<>>
    /\ worker_pc = <<>>
    /\ print_lock = 0
    /\ completed_count = 0
    /\ loaded_count = <<>>
    /\ written = {}
    /\ returned = <<>>
    /\ segments = <<>>
    /\ progress_log = <<>>

SubIdle ==
    /\ whisper_timestamps = <<>>
    /\ full_script = <<>>
    /\ opcodes = <<>>
    /\ op_i = 1
    /\ aligned_results = <<>>
    /\ current_time = 0

SubStart(transcriptions, scripts) ==
    /\ pc = "step2"
    /\ whisper_timestamps \in transcriptions
    /\ full_script \in scripts
    /\ opcodes = <<>>
    /\ op_i = 1
    /\ aligned_results = <<>>
    /\ current_time = 0

InitAlign ==
    /\ SubStart(Transcriptions(MaxWords, MaxTick), Scripts)
    /\ MapIdle /\ OffIdle /\ RunIdle
    /\ PoolIdle
    /\ ProcIdle
    /\ JobsIdle
    /\ folder = {}
    /\ EscIdle

SpecAlign == InitAlign /\ [][NextAlign]_vars

SubScripts == SeqsUpTo(Letters \cup {Comma}, MaxScriptLen)

InitSub ==
    /\ SubStart(Transcriptions(MaxSubWords, MaxSubTick), SubScripts)
    /\ MapIdle /\ OffIdle /\ RunIdle
    /\ PoolIdle
    /\ ProcIdle
    /\ JobsIdle
    /\ folder = {}
    /\ EscIdle

SpecSub == InitSub /\ [][NextSub]_vars

\* the end-to-end scenario: a reference of six characters (five distinct
\* ones, written by their code points) and three words of 0.5 s each
ScenarioScript == <<"U+4ECA", "U+5929", "U+5929", "U+6C23", "U+5F88", "U+597D">>
ScenarioWords ==
    <<[word |-> <<"U+4ECA", "U+5929">>, start |-> 0, end |-> HalfSecond],
      [word |-> <<"U+5929", "U+6C23">>, start |-> HalfSecond, end |-> 2 * HalfSecond],
      [word |-> <<"U+5F88", "U+597D">>, start |-> 2 * HalfSecond, end |-> 3 * HalfSecond]>>

\* references with a run of n punctuation characters between two letters:
\* the longest run the lookahead window bridges, and the first it does not
PunctuatedScript(n) == <<"a">> \o [k \in 1..n |-> Comma] \o <<"b">>
LongScripts == {PunctuatedScript(search_window - 1), PunctuatedScript(search_window)}

\* the reference cut into lines: whole, or in two at one of a few places
BreakLines(script) ==
    {<<script>>} \cup
    {<<SubSeq(script, 1, k), SubSeq(script, k + 1, Len(script))>> :
        k \in {0, 1, 2, Len(script) - 1, Len(script)} \cap 0..Len(script)}

ScriptLineLists ==
    LineLists \cup UNION {BreakLines(script) : script \in {ScenarioScript} \cup LongScripts}

\* generate() from step 2 on, for the references and line lists above too
InitScript ==
    /\ SubStart(Transcriptions(MaxSubWords, MaxSubTick) \cup {ScenarioWords},
                SubScripts \cup {ScenarioScript} \cup LongScripts)
    /\ MapIdle /\ OffIdle /\ RunIdle
    /\ PoolIdle
    /\ ProcIdle
    /\ JobsIdle
    /\ folder = {}
    /\ EscIdle

NextScript ==
    \/ NextAlign
    \/ \E lines \in ScriptLineLists : Step4Begin(lines)
    \/ MapEmptyLine
    \/ MapStartLine
    \/ MapSkipChar
    \/ MapMatch
    \/ MapFallbackConsume
    \/ MapFallbackExhausted
    \/ MapEndLine
    \/ Step4Return

SpecScript == InitScript /\ [][NextScript]_vars

\* timelines handed to _step4_align_timestamps directly: every short list
\* of {char, start, end} entries with start <= end
TimelineEntries ==
    {e \in [char : Letters \cup {Comma}, start : Ticks(MaxSubTick), end : Ticks(MaxSubTick)] :
        e.start <= e.end}
ShortTimelines == SeqsUpTo(TimelineEntries, MaxTimelineLen)

\* n entries holding filler, at times 0, 1, ..., followed by one entry "b"
LongTimeline(filler, n) ==
    [k \in 1..(n + 1) |->
        [char |-> IF k <= n THEN filler ELSE "b",
         start |-> (k - 1) * TimeScale, end |-> k * TimeScale]]

\* timelines that put the character "b" at the last offset the lookahead
\* window reaches, and at the first one it does not reach
LongTimelines ==
    {LongTimeline(filler, n) : <<filler, n>> \in {"a", Comma} \X {search_window - 1, search_window}}

\* _step4_align_timestamps called on a timeline of its own
InitMap ==
    /\ pc = "step3"
    /\ whisper_timestamps = <<>>
    /\ full_script = <<>>
    /\ opcodes = <<>>
    /\ op_i = 1
    /\ aligned_results \in ShortTimelines \cup LongTimelines
    /\ current_time = 0
    /\ MapIdle /\ OffIdle /\ RunIdle
    /\ PoolIdle
    /\ ProcIdle
    /\ JobsIdle
    /\ folder = {}
    /\ EscIdle

SpecMap == InitMap /\ [][NextMap]_vars

Samples == (0 - 1)..MaxAmp
SampleRates == {1, 2}

\* references longer than the 2 * window samples that follow hint 0 at
\* sample rate 1: silence with one sample of amplitude 1, of even length
PulseTracks ==
    {[k \in 1..n |-> IF k = p THEN 1 ELSE 0] :
        <<n, p>> \in {x \in ((2 * WindowSeconds + 1)..MaxLongLen)
                              \X (1..MaxLongLen) : x[1] % 2 = 0 /\ x[2] <= x[1]}}

InitOffset ==
    /\ pc = "offset_call"
    /\ main_audio \in SeqsUpTo(Samples, MaxMainLen) \cup PulseTracks
    /\ segment_audio \in SeqsUpTo(Samples, MaxSegLen) \ {<<>>}
    /\ sr \in SampleRates
    /\ start_hint \in 0..MaxHint
    /\ peak_idx = 0
    /\ SubIdle /\ MapIdle /\ RunIdle
    /\ PoolIdle
    /\ ProcIdle
    /\ JobsIdle
    /\ folder = {}
    /\ EscIdle

SpecOffset == InitOffset /\ [][NextOffset]_vars

\* run() after find_matching_pairs found at least one pair and the avatar
\* track was read
InitRun ==
    /\ pc = "run_detect"
    /\ main_samples \in {q * Grid : q \in 1..MaxMainGrid}
    /\ seg_samples \in SeqsUpTo({q * Grid : q \in 1..MaxSegGrid}, MaxPairs) \ {<<>>}
    /\ current_hint = 0
    /\ start_times = <<>>
    /\ alloc_i = 1
    /\ duration_frames = <<>>
    /\ exact_durations = <<>>
    /\ target_durations = <<>>
    /\ SubIdle /\ MapIdle /\ OffIdle
    /\ PoolIdle
    /\ ProcIdle
    /\ JobsIdle
    /\ folder = {}
    /\ EscIdle

SpecRun == InitRun /\ [][NextRun]_vars

\* the clip ids of the pairs: distinct file stems
PoolStems == {<<"1">>, <<"2">>, <<"1", "0">>}
PairLists ==
    {ps \in SeqsUpTo(PoolStems, MaxPairs) \ {<<>>} :
        \A i, j \in 1..Len(ps) : i # j => ps[i] # ps[j]}

\* create_segment_videos(pairs, temp_dir, durations) is called: every pair
\* has a clip of Grid samples and a duration that is either below the
\* clip's or equal to it
InitPool ==
    /\ pc = "pool_call"
    /\ pairs \in PairLists
    /\ seg_samples = [i \in 1..Len(pairs) |-> Grid]
    /\ exact_durations \in [1..Len(pairs) -> {0, Grid * FPS}]
    /\ main_samples = 0
    /\ current_hint = 0
    /\ start_times = <<>>
    /\ alloc_i = 1
    /\ duration_frames = <<>>
    /\ target_durations = <<>>
    /\ worker_pc = <<>>
    /\ print_lock = 0
    /\ completed_count = 0
    /\ loaded_count = <<>>
    /\ written = {}
    /\ returned = <<>>
    /\ segments = <<>>
    /\ progress_log = <<>>
    /\ SubIdle /\ MapIdle /\ OffIdle
    /\ ProcIdle
    /\ JobsIdle
    /\ folder = {}
    /\ EscIdle

SpecPool == InitPool /\ [][NextPool]_vars

\* the stems of the files of a folder
FolderStems ==
    {<<"1">>, <<"2">>, <<"9">>, <<"1", "0">>, <<"1", "1">>, <<"0", "1">>,
     <<"-", "1">>, <<"a">>, <<"1", "a">>, <<"B">>}

SubsetsUpTo(S, n) == {T \in SUBSET S : Cardinality(T) <= n}

\* find_matching_pairs(folder) is called: the folder holds images of one
\* suffix, mp3 files and possibly a text file
InitPairs ==
    /\ pc = "pairs_call"
    /\ \E images \in SubsetsUpTo(FolderStems, MaxFolderStems),
          sounds \in SubsetsUpTo(FolderStems, MaxFolderStems),
          suffix \in {".png", ".jpeg", ".JPG"},
          others \in SUBSET {[stem |-> <<"2">>, suffix |-> ".txt"]} :
          folder = {[stem |-> x, suffix |-> suffix] : x \in images}
                     \cup {[stem |-> x, suffix |-> ".mp3"] : x \in sounds}
                     \cup others
    /\ SubIdle /\ MapIdle /\ OffIdle /\ RunIdle /\ PoolIdle /\ ProcIdle /\ JobsIdle
    /\ EscIdle

SpecPairs == InitPairs /\ [][NextPairs]_vars

\* the values get_platform returns, and the characters of the paths
Platforms == {"windows", "macos", "linux", "unknown"}
PathChars == {"C", ":", Backslash, "/", " "}

\* escape_ffmpeg_filter_path(path) is called
InitEscape ==
    /\ pc = "escape_call"
    /\ os_name \in Platforms
    /\ path \in SeqsUpTo(PathChars, MaxPathLen)
    /\ escaped = <<>>
    /\ SubIdle /\ MapIdle /\ OffIdle /\ RunIdle /\ PoolIdle /\ ProcIdle /\ JobsIdle
    /\ folder = {}

SpecEscape == InitEscape /\ [][NextEscape]_vars

\* VideoProcessor.process(folder_path, output_path, skip_subtitle, debug) is
\* called on a folder
InitProcess ==
    /\ pc = "process_call"
    /\ skip_subtitle \in BOOLEAN
    /\ debug \in BOOLEAN
    /\ script_exists \in BOOLEAN
    /\ avatar_exists \in BOOLEAN
    /\ srt_existed \in BOOLEAN
    /\ srt_writes = 0
    /\ proc_log = <<>>
    /\ SubIdle /\ MapIdle /\ OffIdle /\ RunIdle /\ PoolIdle
    /\ JobsIdle
    /\ folder = {}
    /\ EscIdle

SpecProcess == InitProcess /\ [][NextProcess]_vars

\* the server has started: jobs = {}
InitJobs ==
    /\ pc = "serving"
    /\ jobs = [job_id \in JobIds |-> Entry("absent", "")]
    /\ tasks = <<>>
    /\ running = 0
    /\ webhooks = <<>>
    /\ SubIdle /\ MapIdle /\ OffIdle /\ RunIdle /\ PoolIdle /\ ProcIdle
    /\ folder = {}
    /\ EscIdle

SpecJobs == InitJobs /\ [][NextJobs]_vars

\* every task that can take a step eventually takes one: the event loop
\* runs every background task, processing ends and the post times out
SpecJobsFair == SpecJobs /\ \A t \in 1..MaxJobs : WF_vars(TaskStep(t))

\* ------------------------------------------------- claims: force alignment
\* the loop over the opcodes has finished: the state at `return aligned_results`
AlignDone == pc = "s2_loop" /\ op_i > Len(opcodes)

HasOp(tag) == \E n \in 1..Len(opcodes) : opcodes[n].tag = tag

\* C2: the Force Aligner returns exactly one entry per character of the
\* reference with newlines removed, in reference order: the char fields,
\* concatenated, are the newline-stripped reference.
C2_OutputIsReference ==
    AlignDone =>
        /\ Len(aligned_results) = Len(full_script) - Cardinality({n \in 1..Len(full_script) : full_script[n] = NL})
        /\ \A n \in 1..Len(aligned_results) :
              /\ aligned_results[n].char # NL
              /\ aligned_results[n].start \in Int
              /\ aligned_results[n].end \in Int
        /\ CharsOf(aligned_results) = Without(full_script, {NL})

C2_Witness ==
    /\ AlignDone
    /\ \E n \in 1..Len(full_script) : full_script[n] = NL
    /\ Len(aligned_results) = 2
    /\ HasOp("equal")
    /\ HasOp("insert")

\* C3: every entry the Force Aligner outputs has start <= end, for every
\* reference and every (possibly empty) transcription.
C3_StartNotAfterEnd ==
    pc = "s2_loop" =>
        \A n \in 1..Len(aligned_results) :
            aligned_results[n].start <= aligned_results[n].end

C3_Witness ==
    /\ AlignDone
    /\ HasOp("replace")
    /\ HasOp("equal")
    /\ \E n \in 1..Len(aligned_results) :
          aligned_results[n].start < aligned_results[n].end
    /\ \E n \in 1..Len(aligned_results) :
          aligned_results[n].start = aligned_results[n].end

\* the word the k-th transcribed character (1-based) belongs to
RECURSIVE WordOfChar(_, _)
WordOfChar(ws, k) ==
    IF k <= Len(Head(ws).word) THEN Head(ws)
    ELSE WordOfChar(Tail(ws), k - Len(Head(ws).word))

InStep4 == pc \in {"s4_line", "s4_char", "done"}

NumCues == Len(final_subtitles)

\* C5: every cue of the Subtitle Timestamp Mapper has end > start; a
\* computed end that is not later than the start is forced to start + 0.5 s.
C5_CueEndAfterStart ==
    \A n \in 1..NumCues : final_subtitles[n].end > final_subtitles[n].start

\* a cue was just appended for a line whose computed end was not later than
\* its start
C5_Witness ==
    /\ pc = "s4_line"
    /\ NumCues >= 1
    /\ fallback_count = 0
    /\ matched_count >= 1
    /\ start_time # None
    /\ end_time[1] <= start_time[1]
    /\ final_subtitles[NumCues].start = start_time[1]
    /\ final_subtitles[NumCues].end = start_time[1] + HalfSecond

\* C6: the cues are time-ordered: each cue starts no earlier than the cue
\* before it (stated for the runs in which the timeline is not empty and
\* every line character found its match, without the fallback).
C6_CuesTimeOrdered ==
    (InStep4 /\ aligned_chars # <<>> /\ fallback_count = 0) =>
        \A n \in 1..(NumCues - 1) :
            final_subtitles[n].start <= final_subtitles[n + 1].start

\* C7: the cues never overlap: a cue's end (after the floor correction) is
\* not later than the next cue's start (stated for the runs in which the
\* timeline holds an entry of positive width and every line character
\* found its match).
C7_CuesDoNotOverlap ==
    (/\ InStep4
     /\ \E n \in 1..Len(aligned_chars) : aligned_chars[n].start < aligned_chars[n].end
     /\ fallback_count = 0) =>
        \A n \in 1..(NumCues - 1) :
            final_subtitles[n].end <= final_subtitles[n + 1].start

\* the cue texts are, in order, lines among ls that are not empty
RECURSIVE CueLinesEmbed(_, _)
CueLinesEmbed(texts, ls) ==
    IF texts = <<>> THEN TRUE
    ELSE IF ls = <<>> THEN FALSE
    ELSE IF Head(texts) = Head(ls) /\ Without(Head(ls), {NL, CR}) # <<>>
         THEN CueLinesEmbed(Tail(texts), Tail(ls))
         ELSE CueLinesEmbed(texts, Tail(ls))

\* C8: at most one cue per input line, in input-line order, none for an
\* empty line: the cue count never exceeds the number of lines processed.
C8_OneCuePerLine ==
    InStep4 =>
        /\ NumCues <= line_i - 1
        /\ NumCues <= Len(subtitle_lines)
        /\ CueLinesEmbed([n \in 1..NumCues |-> final_subtitles[n].text],
                         SubSeq(subtitle_lines, 1, line_i - 1))

C8_Witness ==
    /\ pc = "done"
    /\ Len(subtitle_lines) = 2
    /\ subtitle_lines[1] = <<>>
    /\ matched_count = 2
    /\ NumCues = 1
    /\ final_subtitles[1].text = subtitle_lines[2]

\* ls is t with only punctuation or whitespace inserted
RECURSIVE OnlyPunctuationInserted(_, _)
OnlyPunctuationInserted(ls, t) ==
    IF ls = <<>> THEN t = <<>>
    ELSE \/ /\ t # <<>>
            /\ Head(ls) = Head(t)
            /\ OnlyPunctuationInserted(Tail(ls), Tail(t))
         \/ /\ Head(ls) \in skip_chars
            /\ OnlyPunctuationInserted(Tail(ls), t)

\* C9: when the subtitle lines differ from the aligned transcript (one
\* that holds a character other than punctuation) only by inserted
\* punctuation, the reported coverage matched_count / total_script_chars
\* is 100%.
C9_FullCoverage ==
    (/\ pc = "done"
     /\ total_script_chars > 0
     /\ \E n \in 1..Len(aligned_chars) : aligned_chars[n].char \notin skip_chars
     /\ OnlyPunctuationInserted(Concat(subtitle_lines), CharsOf(aligned_chars)))
        => matched_count = total_script_chars

\* ------------------------------------------------ claims: offset detector
\* the sample indices t at which the clip is literally a slice of the reference
Occurrences(main, seg) ==
    {t \in 0..(Len(main) - Len(seg)) : SubSeq(main, t + 1, t + Len(seg)) = seg}

\* the correlation attains its maximum over the whole output at one index only
UniquePeak(main, seg) ==
    Cardinality({k \in 0..(Len(main) - 1) :
        \A j \in 0..(Len(main) - 1) : Corr(main, seg, j) <= Corr(main, seg, k)}) = 1

\* C10: for a clip that is literally a contiguous slice of the reference at
\* sample index t, find_audio_offset returns an offset within one sample of
\* t (stated for the default hint 0, a reference of even length, whose
\* correlation is exact and has a single maximum, and a result compared
\* with every index at which the clip occurs).
C10_SliceIsFound ==
    (/\ pc = "offset_done"
     /\ start_hint = 0
     /\ Len(main_audio) % 2 = 0
     /\ Occurrences(main_audio, segment_audio) # {}
     /\ UniquePeak(main_audio, segment_audio))
        => \E t \in Occurrences(main_audio, segment_audio) :
              peak_idx - t \in {0 - 1, 0, 1}

\* C11: when the clip has more samples than the reference, find_audio_offset
\* returns offset 0 in one step, without the correlation steps and without
\* raising.
C11_TooLongReturnsZero ==
    /\ Len(segment_audio) > Len(main_audio) =>
          /\ pc # "offset_error"
          /\ pc = "offset_done" => peak_idx = 0
          /\ pc = "offset_call" =>
                /\ ENABLED FindOffsetTooLong
                /\ ~ENABLED FindOffsetWindow
                /\ ~ENABLED FindOffsetWhole
                /\ ~ENABLED FindOffsetOddLength
                /\ ~ENABLED FindOffsetRaises

\* the call has returned for a clip longer than a reference that is not silent
C11_Witness ==
    /\ pc = "offset_done"
    /\ Len(segment_audio) > Len(main_audio)
    /\ Len(main_audio) = 1
    /\ main_audio[1] # 0
    /\ segment_audio[1] # 0
    /\ start_hint > 0

\* --------------------------------------------- claims: duration allocator
\* the detection loop is about to call find_audio_offset for a clip that is
\* longer than the avatar track
DetectsTooLong ==
    /\ pc = "run_detect"
    /\ Len(start_times) < NumPairs
    /\ seg_samples[Len(start_times) + 1] > main_samples

\* C12: when a clip is longer than the reference track, run() treats the
\* detector's result as an error: the step that detects it does not record
\* the returned 0 as the clip's start time and does not seed the next
\* clip's hint from it.
C12_TooLongIsError ==
    [][DetectsTooLong =>
          /\ start_times' # Append(start_times, 0)
          /\ current_hint' = current_hint]_vars

RECURSIVE Sum(_)
Sum(xs) == IF xs = <<>> THEN 0 ELSE Head(xs) + Sum(Tail(xs))

\* every detected clip lies inside the reference track, one after another
ClipsInSequence ==
    /\ \A i \in 1..(NumPairs - 1) : start_times[i] + seg_samples[i] <= start_times[i + 1]
    /\ start_times[NumPairs] + seg_samples[NumPairs] <= main_samples

\* C1: the per-segment frame counts of the duration allocation in run() sum
\* exactly to round(total_reference_duration * fps), whatever the detected
\* start times and the number of segments (stated for the runs in which
\* the detected clips lie inside the reference, one after another).
C1_FramesSumToTotal ==
    (pc = "run_segments" /\ ClipsInSequence) =>
        Sum(duration_frames) = FrameOf(main_samples)

\* C13: every segment video is rendered with exactly the duration the
\* allocator assigned to its clip: the workers of create_segment_videos pass
\* exact_durations on unchanged, so the rendered total is the allocated
\* total (stated for the runs in which the detected clips lie inside the
\* reference, one after another, the first at the start of the track).
C13_RenderedAsAllocated ==
    (pc = "run_concat" /\ ClipsInSequence /\ start_times[1] = 0) =>
        /\ \A i \in 1..NumPairs : target_durations[i] = <<exact_durations[i]>>
        /\ Sum([i \in 1..NumPairs |-> target_durations[i][1]]) = Sum(exact_durations)

\* C14: for every segment, the last one included, the allocator assigns the
\* clip's own measured duration when the frame-derived duration is
\* non-positive or not above the 0.1 s floor, and the frame-derived
\* duration otherwise; every segment gets a duration.
C14_FloorFallbackEverySegment ==
    pc = "run_segments" =>
        /\ Len(exact_durations) = NumPairs
        /\ \A i \in 1..NumPairs :
              exact_durations[i] = IF BelowFloor(duration_frames[i])
                                   THEN MeasuredDuration(i)
                                   ELSE duration_frames[i] * SR

\* the call returned the first index of the largest correlation value among
\* the indices lo..hi-1
FirstMaxIn(lo, hi) ==
    /\ peak_idx \in lo..(hi - 1)
    /\ \A k \in lo..(hi - 1) :
          /\ Corr(main_audio, segment_audio, k) <= Corr(main_audio, segment_audio, peak_idx)
          /\ k < peak_idx =>
                Corr(main_audio, segment_audio, k) < Corr(main_audio, segment_audio, peak_idx)

\* a non-empty range [max(0, h - w/2), min(N, h + 2w)) is the only part searched
SearchedRangeOnly ==
    LET h == HintIdx(start_hint, sr)
        lo == Max({0, h - (WindowSeconds * sr) \div 2})
        hi == Min({Len(main_audio), h + 2 * (WindowSeconds * sr)})
    IN  lo < hi => FirstMaxIn(lo, hi)

\* without a hint (the default start_hint = 0.0) the whole output is searched
NoHintSearchesAll ==
    start_hint = 0 => FirstMaxIn(0, Len(main_audio))

\* C15: find_audio_offset searches only the neighbourhood of the hint: when
\* the range [max(0, h - w/2), min(N, h + 2w)) is not empty the returned
\* index is the first index of the largest correlation value in it; and the
\* whole correlation output is searched when no hint is given (stated for
\* a reference of even length, whose correlation is exact).
C15_SearchesHintWindow ==
    (/\ pc = "offset_done"
     /\ Len(segment_audio) <= Len(main_audio)
     /\ Len(main_audio) % 2 = 0) =>
        /\ SearchedRangeOnly
        /\ NoHintSearchesAll

\* the sliding-window correlation at position k: sum over m of R[k+m] * S[m]
RECURSIVE SlidingSum(_, _, _, _)
SlidingSum(main, seg, k, m) ==
    IF m >= Len(seg) THEN 0
    ELSE main[k + m + 1] * seg[m + 1] + SlidingSum(main, seg, k, m + 1)

\* C16: the offset find_audio_offset chooses is the one a direct
\* sliding-window search would choose: at the positions k that keep the
\* clip inside the reference the compared value is the sum of R[k+m]*S[m],
\* and no position at which the clip runs past the end of the reference is
\* returned (stated for a reference of even length, the default hint and a
\* correlation with a single maximum).
C16_SlidingWindowChoice ==
    (/\ pc = "offset_done"
     /\ Len(segment_audio) <= Len(main_audio)
     /\ Len(main_audio) % 2 = 0
     /\ start_hint = 0
     /\ UniquePeak(main_audio, segment_audio)) =>
        /\ \A k \in 0..(Len(main_audio) - Len(segment_audio)) :
              Corr(main_audio, segment_audio, k) = SlidingSum(main_audio, segment_audio, k, 0)
        /\ peak_idx + Len(segment_audio) <= Len(main_audio)

\* C17: in run() the clips are detected one after another in pair order;
\* the hint of the first detection is 0 and the hint of every later one is
\* the previous clip's detected start plus that clip's own duration.
C17_HintChain ==
    pc = "run_detect" =>
        /\ Len(start_times) <= NumPairs
        /\ current_hint = IF start_times = <<>> THEN 0
                          ELSE start_times[Len(start_times)]
                               + seg_samples[Len(start_times)]

\* two clips are detected, at different places, and a third is still to come
C17_Witness ==
    /\ pc = "run_detect"
    /\ NumPairs = 3
    /\ Len(start_times) = 2
    /\ 0 < start_times[1]
    /\ start_times[1] < start_times[2]
    /\ seg_samples[1] # seg_samples[2]
    /\ current_hint = start_times[2] + seg_samples[2]

\* C18: the mapper's cursor never decreases and stays within
\* 0..len(timeline): a matched line character moves it just past the matched
\* entry, at most search_window entries ahead; an unmatched one consumes the
\* entry at the cursor and moves it by exactly one while entries remain, and
\* leaves it unchanged once the timeline is exhausted; every step over a
\* line character goes on to the next character.
C18_CursorAdvances ==
    [][/\ char_idx' >= char_idx
       /\ char_idx' \in 0..Len(aligned_chars')
       /\ matched_count' = matched_count + 1 =>
             /\ char_idx' \in (char_idx + 1)..(char_idx + search_window)
             /\ aligned_chars[char_idx'].char = char
             /\ end_time' = <<aligned_chars[char_idx'].end>>
             /\ fallback_count' = fallback_count
       /\ fallback_count' = fallback_count + 1 =>
             /\ matched_count' = matched_count
             /\ char_idx < total_chars =>
                   /\ char_idx' = char_idx + 1
                   /\ end_time' = <<aligned_chars[char_idx'].end>>
             /\ char_idx >= total_chars =>
                   /\ char_idx' = char_idx
                   /\ end_time' = <<current_time4>>
       /\ AtChar => ch_i' = ch_i + 1]_vars

\* a match has moved the cursor by the whole lookahead window, and the
\* next character found the timeline exhausted
C18_Witness ==
    /\ pc = "done"
    /\ Len(aligned_chars) = search_window
    /\ char_idx = search_window
    /\ matched_count = 1
    /\ fallback_count = 1

\* the lines with whitespace and punctuation deleted from every line
StripLines(lines) == [n \in 1..Len(lines) |-> Without(lines[n], skip_chars)]

\* the (start, end) pairs of the cues and the cursor the mapper ended with
MapperOutcome ==
    [cues |-> [n \in 1..NumCues |-> <<final_subtitles[n].start, final_subtitles[n].end>>],
     char_idx |-> char_idx]

\* C19: whitespace and punctuation in the lines take no part in matching:
\* over the same timeline, the lines and the lines with those characters
\* deleted (hence any two line lists that agree once they are deleted) give
\* the same (start, end) pairs and the same final cursor; and the entry
\* selected as the match of a line character is never punctuation or
\* whitespace.
C19_PunctuationIgnored ==
    /\ [](pc = "done" =>
            /\ Step4AlignTimestamps(subtitle_lines, aligned_chars) = MapperOutcome
            /\ Step4AlignTimestamps(StripLines(subtitle_lines), aligned_chars) = MapperOutcome)
    /\ [][matched_count' = matched_count + 1 =>
              aligned_chars[char_idx'].char \notin skip_chars]_vars

\* lines that hold punctuation were mapped onto a timeline that begins with
\* punctuation, and the one letter was matched behind it
C19_Witness ==
    /\ pc = "done"
    /\ Len(subtitle_lines) = 2
    /\ subtitle_lines[1] # <<>>
    /\ Head(subtitle_lines[1]) = Comma
    /\ StripLines(subtitle_lines) # subtitle_lines
    /\ Len(aligned_chars) = 2
    /\ aligned_chars[1].char = Comma
    /\ matched_count = 1
    /\ fallback_count = 0
    /\ NumCues = 1
    /\ char_idx = 2

\* the cues of lines whose characters stand in the timeline at the
\* positions offset + 1, offset + 2, ...: from the start of a line's first
\* character that is not punctuation to the end of its last one
RECURSIVE CuesAtOwnPositions(_, _, _)
CuesAtOwnPositions(lines, timeline, offset) ==
    IF lines = <<>> THEN <<>>
    ELSE LET line == Head(lines)
             own == {k \in 1..Len(line) : line[k] \notin skip_chars}
             first == timeline[offset + Min(own)]
             last == timeline[offset + Max(own)]
             rest == CuesAtOwnPositions(Tail(lines), timeline, offset + Len(line))
         IN  IF own = {} THEN rest
             ELSE <<[start |-> first.start,
                     end |-> IF last.end <= first.start
                             THEN first.start + HalfSecond ELSE last.end,
                     text |-> line]>> \o rest

\* fewer than search_window consecutive punctuation entries in the timeline
ShortPunctuationRuns(timeline) ==
    \A i \in 1..(Len(timeline) - search_window + 1) :
        \E k \in i..(i + search_window - 1) : timeline[k].char \notin skip_chars

\* C20: when the subtitle lines are the reference with only line breaks
\* inserted and the timeline is the aligner's output for it, with fewer than
\* 100 consecutive punctuation entries, every line character that is not
\* punctuation is matched at its own position without fallback: each cue
\* runs from the start of its line's first such character to the end of
\* its last (before the floor correction); and the six-character scenario
\* gives the single cue 0.0 to 1.5 s.
C20_LinesOfReference ==
    (/\ pc = "done"
     /\ Concat(subtitle_lines) = CharsOf(aligned_chars)
     /\ ShortPunctuationRuns(aligned_chars)) =>
        /\ fallback_count = 0
        /\ matched_count = Len(Without(Concat(subtitle_lines), skip_chars))
        /\ final_subtitles = CuesAtOwnPositions(subtitle_lines, aligned_chars, 0)
        /\ (/\ subtitle_lines = <<ScenarioScript>>
            /\ aligned_chars = WhisperChars(ScenarioWords)) =>
               final_subtitles = <<[start |-> 0, end |-> 3 * HalfSecond,
                                    text |-> ScenarioScript]>>

\* the scenario has run from the three words to its cue
C20_Witness ==
    /\ pc = "done"
    /\ subtitle_lines = <<ScenarioScript>>
    /\ aligned_chars = WhisperChars(ScenarioWords)
    /\ matched_count = 6
    /\ NumCues = 1

\* C21: for time-ordered, non-overlapping words with start <= end, the
\* timeline of the aligner has non-decreasing starts, for every reference:
\* no entry starts earlier than the entry before it
C21_TimelineStartsOrdered ==
    \A k \in 1..(Len(aligned_results) - 1) :
        aligned_results[k].start <= aligned_results[k + 1].start

\* the opcodes before the q-th that consume transcribed characters
ConsumingBefore(q) == {r \in 1..(q - 1) : opcodes[r].tag # "insert"}

\* the time cursor the claim names for the q-th opcode: the end of the last
\* transcribed character consumed by a preceding equal, replace or delete
\* run, else the first transcribed character's start, else 0
CursorBefore(q) ==
    IF ConsumingBefore(q) # {}
    THEN whisper_chars[opcodes[Max(ConsumingBefore(q))].i2].end
    ELSE IF whisper_chars # <<>> THEN whisper_chars[1].start
    ELSE 0

\* C22: every reference character of an insert run gets start = end = the
\* time cursor: the end of the last transcribed character consumed by a
\* preceding equal, replace or delete run, or the first transcribed
\* character's start when no run precedes, or 0 for an empty transcription
C22_InsertAtCursor ==
    pc = "s2_loop" =>
        \A q \in 1..(op_i - 1) :
            opcodes[q].tag = "insert" =>
                \A j \in (opcodes[q].j1 + 1)..opcodes[q].j2 :
                    /\ aligned_results[j].char = script_str[j]
                    /\ aligned_results[j].start = CursorBefore(q)
                    /\ aligned_results[j].end = CursorBefore(q)

\* an insert run after an equal run has been given a cursor later than the
\* first character's start
C22_Witness ==
    /\ pc = "s2_loop"
    /\ op_i = 3
    /\ opcodes[1].tag = "equal"
    /\ opcodes[2].tag = "insert"
    /\ aligned_results[opcodes[2].j2].start = whisper_chars[opcodes[1].i2].end
    /\ aligned_results[opcodes[2].j2].start > whisper_chars[1].start

\* the entries of the q-th opcode, a replace run over the transcribed
\* characters i1..i2-1 and m reference characters, tile [s, e] evenly
TilesEvenly(q) ==
    LET op == opcodes[q]
        m == op.j2 - op.j1
        s == whisper_chars[op.i1 + 1].start
        e == whisper_chars[op.i2].end
        entry(k) == aligned_results[op.j1 + k + 1]
    IN  /\ \A k \in 0..(m - 1) :
               /\ entry(k).start * m = s * m + k * (e - s)
               /\ entry(k).end * m = s * m + (k + 1) * (e - s)
        /\ entry(0).start = s
        /\ \A k \in 0..(m - 2) : entry(k).end = entry(k + 1).start
        /\ entry(m - 1).end = e

C24_SegmentsInIndexOrder ==
    pc = "pool_return" =>
        /\ Len(segments) = Len(pairs)
        /\ \A i \in Workers : segments[i] = <<"segment", pairs[i]>>

\* three workers have completed in the reverse of the list order
C24_Witness ==
    /\ pc = "pool_return"
    /\ Len(pairs) = MaxPairs
    /\ \A k \in 1..MaxPairs : progress_log[k] = pairs[MaxPairs + 1 - k]
    /\ segments[1] = <<"segment", pairs[1]>>

\* at most one worker holds print_lock
LockHeldByOne ==
    \A i, j \in 1..Len(worker_pc) :
        (/\ worker_pc[i] \in {"load", "store", "release"}
         /\ worker_pc[j] \in {"load", "store", "release"}) => i = j

\* C25: no two workers write the same output file, no worker changes the
\* durations mapping (each takes its target from the entry of its own
\* clip), and the progress counter is updated under the lock, so that it
\* equals the number of segments after all workers have finished
C25_WorkersShareNothing ==
    /\ [](/\ \A f, g \in written : f.file = g.file => f.by = g.by
          /\ LockHeldByOne
          /\ \A i \in 1..Len(worker_pc) :
                worker_pc[i] # "queued" =>
                    target_durations[i] =
                        <<Max({exact_durations[i], OriginalDuration(i)})>>
          /\ pc = "pool_return" => completed_count = Len(pairs))
    /\ [][pc = "pool_map" => exact_durations' = exact_durations]_vars

\* three workers have written their files and counted, the last of the
\* list first, after a worker waited for the lock
C25_Witness ==
    /\ pc = "pool_map"
    /\ Len(pairs) = MaxPairs
    /\ Cardinality(written) = MaxPairs
    /\ completed_count = MaxPairs - 1
    /\ progress_log[1] = pairs[MaxPairs]
    /\ \E i \in Workers : worker_pc[i] = "store" /\ loaded_count[i] = MaxPairs - 1
    /\ \E i \in Workers : exact_durations[i] < OriginalDuration(i)

\* the subtitle step is called for: skip_subtitle false, the script exists
\* and no subtitle file exists yet
SubtitleWanted == ~skip_subtitle /\ script_exists /\ ~srt_existed

StatusMoves ==
    {<<"absent", PENDING>>, <<PENDING, PROCESSING>>,
     <<PROCESSING, COMPLETED>>, <<PROCESSING, FAILED>>}

\* C27: for any interleaving of submitted jobs, the status stored under a
\* job id only moves pending, processing, then completed or failed, and
\* once completed or failed is stored the entry of that id never changes
C27_StatusOnlyAdvances ==
    [][\A job_id \in JobIds :
          /\ jobs[job_id].status \in {COMPLETED, FAILED} =>
                 jobs'[job_id] = jobs[job_id]
          /\ jobs'[job_id].status # jobs[job_id].status =>
                 <<jobs[job_id].status, jobs'[job_id].status>> \in StatusMoves]_vars

\* the posts attempted for task t
PostsOf(t) == {k \in 1..Len(webhooks) : webhooks[k].task = t}

\* task t has ended: it stored a terminal status and posted it once, to
\* its callback URL
EndedWithOnePost(t) ==
    /\ tasks[t].pc \in {"delivered", "lost"}
    /\ tasks[t].stored \in {COMPLETED, FAILED}
    /\ Cardinality(PostsOf(t)) = 1
    /\ \A k \in PostsOf(t) :
          /\ webhooks[k].status = tasks[t].stored
          /\ webhooks[k].callback_url = tasks[t].callback_url
          /\ webhooks[k].job_id = tasks[t].job_id

IntegerStems == {<<"1">>, <<"2">>, <<"9">>, <<"1", "0">>, <<"1", "1">>,
                 <<"0", "1">>, <<"-", "1">>}
StemValue(x) ==
    CASE x = <<"1">> -> 1 [] x = <<"2">> -> 2 [] x = <<"9">> -> 9
      [] x = <<"1", "0">> -> 10 [] x = <<"1", "1">> -> 11
      [] x = <<"0", "1">> -> 1 [] x = <<"-", "1">> -> 0 - 1

\* the other stems, in lexicographic order
TextStems == <<(<<"1", "a">>), (<<"B">>), (<<"a">>)>>
TextRank(x) == CHOOSE k \in 1..Len(TextStems) : TextStems[k] = x

HasImage(x) == \E f \in folder : f.stem = x /\ f.suffix \in {".png", ".jpeg", ".JPG"}
HasSound(x) == \E f \in folder : f.stem = x /\ f.suffix = ".mp3"

\* C29: find_matching_pairs returns exactly the stems that have both an
\* image and an .mp3 in the folder, each once, the integer-valued stems
\* first in ascending numeric order (9 before 10 and 11), then the
\* non-numeric stems in lexicographic order
C29_PairsInNaturalOrder ==
    pc = "pairs_done" =>
        /\ \A x \in FolderStems :
              (HasImage(x) /\ HasSound(x)) <=> (\E k \in 1..Len(pairs) : pairs[k] = x)
        /\ \A i, j \in 1..Len(pairs) : i # j => pairs[i] # pairs[j]
        /\ \A i, j \in 1..Len(pairs) :
              i < j =>
                 \/ /\ pairs[i] \in IntegerStems
                    /\ pairs[j] \in IntegerStems
                    /\ StemValue(pairs[i]) <= StemValue(pairs[j])
                 \/ /\ pairs[i] \in IntegerStems
                    /\ pairs[j] \notin IntegerStems
                 \/ /\ pairs[i] \notin IntegerStems
                    /\ pairs[j] \notin IntegerStems
                    /\ TextRank(pairs[i]) < TextRank(pairs[j])

\* a folder with the pairs 9, 10 and a, an image without sound and a text
\* file: 9 comes before 10
C29_Witness ==
    /\ pc = "pairs_done"
    /\ pairs = <<(<<"9">>), (<<"1", "0">>), (<<"a">>)>>
    /\ \E f \in folder : f.suffix = ".txt"
    /\ \E f \in folder : f.suffix = ".JPG"

\* what the claim makes of one character of the path
EscapedChar(c, windows) ==
    IF c = ":" THEN <<Backslash, ":">>
    ELSE IF windows /\ c = Backslash THEN <<"/">>
    ELSE IF windows /\ c = " " THEN <<Backslash, " ">>
    ELSE <<c>>

\* C30: on Windows every backslash of the path becomes '/', every ':' a
\* backslash and ':', every space a backslash and a space; on every other
\* platform only every ':' is escaped, so that a path without ':' is
\* returned unchanged
C30_EscapesPerPlatform ==
    pc = "escape_done" =>
        /\ escaped = Concat([k \in 1..Len(path) |->
                                EscapedChar(path[k], os_name = "windows")])
        /\ (os_name # "windows" /\ \A k \in 1..Len(path) : path[k] # ":") =>
               escaped = path

\* a Windows path with a drive colon, a backslash and a space was escaped
C30_Witness ==
    /\ pc = "escape_done"
    /\ os_name = "windows"
    /\ path = <<"C", ":", Backslash, " ">>
    /\ escaped = <<"C", Backslash, ":", "/", Backslash, " ">>

====
